---- MODULE Spec2Model ----
(***************************************************************************)
(* A model of the Gails request core: the per-request Context and its      *)
(* writers, the Action Dispatcher (ActionHandler / handleActionError and   *)
(* the fault pages), the Router on top of the chi path table, and the      *)
(* RateLimit, CSRF, CORS and Locale middleware, the auth wrappers, the     *)
(* generator's naming functions, the queue worker, the websocket Hub and   *)
(* the start-up of the App.                                                *)
(*                                                                         *)
(* The specifications share the variables:                                 *)
(*   Spec          one request dispatched through ActionHandler            *)
(*   RouterSpec    boot-time registration followed by request matching     *)
(*   CapsSpec      one resource whose controller implements any subset of  *)
(*                 the seven actions                                       *)
(*   RateLimitSpec requests passing through RateLimit                      *)
(*   MiddlewareSpec one request through CSRF or CORS, or one call of an    *)
(*                 action wrapped by auth.Required / auth.RequireRole      *)
(*   TableSpec     registration calls, also on the Router outside a        *)
(*                 callback, and the route table they leave                *)
(*   InflectSpec   a word pluralized and singularized again                *)
(*   LocaleSpec    concurrent requests through Locale                      *)
(*   SeedSpec      calls of db.Once on one database                        *)
(*   EnvSpec       a process, its environment and the page each guard      *)
(*                 selects for a fault                                     *)
(*   LockSpec      the in-memory RateLimit, one statement at a time        *)
(*   HeapSpec      concurrent requests, each dispatched with its Context   *)
(*   ChainSpec     one request through the default chain of Boot           *)
(*   NamingSpec    a table name reduced to its singular, rule by rule      *)
(*   WorkerSpec    jobs processed by the queue worker and counted          *)
(*   HubSpec       websocket connections served by Hub.HandleChannel       *)
(*   StartupSpec   New, Register, Routes and Run as calls on the Mux       *)
(* Each leaves the variables of the other parts at their idle values.      *)
(***************************************************************************)
EXTENDS Integers, Sequences, FiniteSets, TLC

VARIABLES
    cfg,        \* process configuration: app reference, environment, Log, Renderer
    pc,         \* position of the dispatch: idle (chain: not yet reached), action, returned, panicking, done, crashed
    req,        \* the inbound request of the dispatch
    ctx,        \* the Context of the dispatch (context.go:33-41)
    sink,       \* the http.ResponseWriter the Context wraps
    lastErr,    \* the value the handler's last Context call returned
    bound,      \* the body and target of the handler's Bind call
    ret,        \* what the action returned, or the value it panicked with
    hcalls,     \* the Context calls the action has made, in order, and whether each wrote
    controllers,\* controller type -> the actions it implements
    muxes,      \* the chi path tables: muxes[1] is App.Router.Mux, the others are sub-routers
    stack,      \* the Routers whose registration callback is running, innermost last
    phase,      \* idle, boot (App.Routes callback running), serve, panic
    calls,      \* the registration calls made so far, in order
    resp,       \* the outcome of the last request matched against the tables
    limiter,    \* RateLimit(limit, window) and whether cache.Redis is set
    clock,      \* time.Now()
    counts,     \* RateLimit's map: client address -> recorded arrival times
    zsets,      \* the sorted sets of the Redis limiter: key -> members and expiry
    traffic,    \* the requests that entered RateLimit, in order, with their progress
    solo,       \* per client, the limiter's records had only that client sent requests
    mwreq,      \* the request handed to a middleware or an action wrapper
    mwres,      \* what the middleware or wrapper did with it
    currentLocale, \* i18n's package variable currentLocale
    localized,  \* the requests that entered the Locale middleware, with their progress
    noun,       \* a word and what pluralize and singularize made of it
    seeds,      \* the names in the seeds table (SeedRecord, unique by name)
    onces,      \* the calls of db.Once, with their progress
    heap,       \* the Contexts allocated so far
    inflight,   \* the requests being handled, each with the Context it was given
    modes,      \* a fault, the process it happens in, and the page each guard chose
    chain,      \* the Logger around the rest of the default chain: its stage and records
    jobs,       \* the tasks the queue worker processes, with their progress
    processed,  \* the increments of the processed-jobs counter, in order
    hub,        \* the WebSocket Hub: its connection set and its rooms
    channels,   \* the connections served by Hub.HandleChannel, with their progress
    startup     \* the start-up of the application: the calls made on the Mux, in order

dvars == <<cfg, pc, req, ctx, sink, lastErr, bound, ret, hcalls>>

rvars == <<controllers, muxes, stack, phase, calls, resp>>

lvars == <<limiter, clock, counts, zsets, traffic, solo>>

mvars == <<mwreq, mwres>>

ivars == <<currentLocale, localized>>

gvars == <<noun>>

evars == <<seeds, onces, heap, inflight, modes, chain>>

wvars == <<jobs, processed, hub, channels, startup>>

vars == <<dvars, rvars, lvars, mvars, ivars, gvars, evars, wvars>>

\* ------------------------------------------------------------------ bounds

\* Context calls one action makes before it returns or panics.
MaxHandlerOps == 2

\* ------------------------------------------------------------- small helpers

\* strings.Contains
Contains(s, sub) ==
    \E i \in 1..(Len(s) - Len(sub) + 1) : SubSeq(s, i, i + Len(sub) - 1) = sub

\* strings.HasSuffix
HasSuffix(s, suf) ==
    Len(s) >= Len(suf) /\ SubSeq(s, Len(s) - Len(suf) + 1, Len(s)) = suf

Range(f) == {f[i] : i \in DOMAIN f}

\* ------------------------------------------------------------ error values

Fields == {"Name", "Email", "Password"}

\* A field-error map (HTTPError.Errors): nil, or field -> messages.  A field
\* with no messages is a key the map does not hold.
NoMessages == [f \in Fields |-> <<>>]

NilErrors == [nil |-> TRUE, m |-> NoMessages]

Nil == [typ |-> "nil", Code |-> 0, Message |-> "", Errors |-> NilErrors]

\* &HTTPError{Code, Message, Errors}
HTTPError(code, msg, errors) ==
    [typ |-> "http", Code |-> code, Message |-> msg, Errors |-> errors]

\* any other error value (errors.New, fmt.Errorf, ...)
Untyped(msg) == [typ |-> "untyped", Code |-> 0, Message |-> msg, Errors |-> NilErrors]

BadRequest(err) == HTTPError(400, err.Message, NilErrors)

NotFound(msg) == HTTPError(404, msg, NilErrors)

Forbidden(msg) == HTTPError(403, msg, NilErrors)

UnprocessableEntity(errors) == HTTPError(422, "Validation failed", errors)

InternalError(err) == HTTPError(500, err.Message, NilErrors)

\* ------------------------------------------------------- http.ResponseWriter

\* What is written to the body in one Write: its content type as produced,
\* the JSON key (error / errors / data) or "" for text, the text, the field errors.
Chunk(kind, key, msg, errs) == [kind |-> kind, key |-> key, msg |-> msg, errs |-> errs]

NoHeaders == [ContentType |-> "", Location |-> "", RetryAfter |-> ""]

\* A fresh response: nothing committed.  header is the live header map, sent
\* the headers as they were when the status line was committed, superfluous
\* the WriteHeader calls made after the commit (net/http ignores them).
NewSink ==
    [committed |-> FALSE, status |-> 0, header |-> NoHeaders, sent |-> NoHeaders,
     body |-> <<>>, superfluous |-> 0]

SetContentType(s, v) == [s EXCEPT !.header.ContentType = v]

SetLocation(s, v) == [s EXCEPT !.header.Location = v]

WriteHeader(s, code) ==
    IF s.committed
    THEN [s EXCEPT !.superfluous = @ + 1]
    ELSE [s EXCEPT !.committed = TRUE, !.status = code, !.sent = s.header]

\* Write commits 200 first when nothing is committed yet.
Write(s, chunk) ==
    LET t == IF s.committed THEN s
             ELSE [s EXCEPT !.committed = TRUE, !.status = 200, !.sent = s.header]
    IN  [t EXCEPT !.body = Append(@, chunk)]

\* http.Error(w, msg, code)
HttpError(s, msg, code) ==
    Write(WriteHeader(SetContentType(s, "text/plain; charset=utf-8"), code),
          Chunk("text", "", msg, NilErrors))

\* http.Redirect(w, r, url, code)
HttpRedirect(s, r, url, code) ==
    LET hadCT == s.header.ContentType # ""
        s1 == SetLocation(s, url)
        s2 == IF ~hadCT /\ r.method \in {"GET", "HEAD"}
              THEN SetContentType(s1, "text/html; charset=utf-8") ELSE s1
        s3 == WriteHeader(s2, code)
    IN  IF ~hadCT /\ r.method = "GET"
        THEN Write(s3, Chunk("html", "", url, NilErrors))
        ELSE s3

\* -------------------------------------------------------------------- Context

NewContext == [written |-> FALSE, statusCode |-> 0, currentUser |-> "nil"]

\* Context.IsJSON
IsJSON(r) == Contains(r.contentType, "application/json")

\* A JSON value handed to Context.JSON: H{"error": msg}, H{"errors": errs},
\* a payload H{...} of the action, or a value encoding/json cannot encode.
ErrorBody(msg) == [key |-> "error", msg |-> msg, errs |-> NilErrors]

ErrorsBody(errs) == [key |-> "errors", msg |-> "", errs |-> errs]

Payload(name) == [key |-> "data", msg |-> name, errs |-> NilErrors]

Unencodable == [key |-> "chan", msg |-> "", errs |-> NilErrors]

\* The result of a Context call: the Context, the response and the error returned.
Result(c, s, e) == [ctx |-> c, sink |-> s, err |-> e]

\* Context.JSON
JSON(c, s, status, v) ==
    LET s1 == WriteHeader(SetContentType(s, "application/json"), status)
        c1 == [c EXCEPT !.statusCode = status, !.written = TRUE]
    IN  IF v.key = "chan"
        THEN Result(c1, s1, Untyped("json: unsupported type"))
        ELSE Result(c1, Write(s1, Chunk("json", v.key, v.msg, v.errs)), Nil)

Templates == {"index"}

\* Context.Render, with Renderer.Render behind it
Render(c, s, conf, template) ==
    IF conf.app /\ conf.renderer
    THEN LET s1 == SetContentType(s, "text/html; charset=utf-8")
             c1 == [c EXCEPT !.statusCode = 200, !.written = TRUE]
         IN  IF template \in Templates
             THEN Result(c1, Write(s1, Chunk("html", "", template, NilErrors)), Nil)
             ELSE Result(c1, s1, Untyped("template is undefined"))
    ELSE Result(c, s, Untyped("renderer not initialized"))

\* Context.Redirect as it would be if it recorded written from the outcome of
\* this call alone: false when the response was committed before it.
Redirect_WrittenFromCall(c, s, r, url) ==
    Result([c EXCEPT !.written = ~s.committed], HttpRedirect(s, r, url, 302), Nil)

\* Context.Redirect
Redirect(c, s, r, url) ==
    Result([c EXCEPT !.written = TRUE], HttpRedirect(s, r, url, 302), Nil)

\* Context.Status
Status(c, s, code) ==
    Result([c EXCEPT !.statusCode = code, !.written = TRUE], WriteHeader(s, code), Nil)

\* ------------------------------------------------------------- Context.Bind

\* A request body: not decodable at all, or for every field the values it
\* carries (none: the key is absent; one: a scalar; several: a list).
Body(malformed, form) == [malformed |-> malformed, form |-> form]

NoValues == [f \in Fields |-> <<>>]

Bodies ==
    { Body(TRUE, NoValues),
      Body(FALSE, [NoValues EXCEPT !.Name = <<"Ann">>]),
      Body(FALSE, [NoValues EXCEPT !.Name = <<"Ann">>, !.Email = <<"ann">>,
                                   !.Password = <<"secret">>]),
      Body(FALSE, [NoValues EXCEPT !.Name = <<"Ann">>, !.Email = <<"ann@x.io">>,
                                   !.Password = <<"longsecret">>]),
      Body(FALSE, [NoValues EXCEPT !.Name = <<"Ann", "Bob">>]) }

\* One validate tag of a struct field: required, email, min=8.
Tag(tag, param, n) == [tag |-> tag, param |-> param, n |-> n]

Rule(field, tags) == [field |-> field, tags |-> tags]

\* The targets the example application binds (all fields are strings).
CreateUserInput ==
    << Rule("Name", <<Tag("required", "", 0)>>),
       Rule("Email", <<Tag("required", "", 0), Tag("email", "", 0)>>),
       Rule("Password", <<Tag("required", "", 0), Tag("min", "8", 8)>>) >>

LoginInput == << Rule("Email", <<>>), Rule("Password", <<>>) >>

\* The decoded target: every field's string, "" when the body does not set it.
Decoded(err, vals) == [err |-> err, vals |-> vals]

ZeroTarget == [f \in Fields |-> ""]

\* json.Unmarshal of the body's object into a target of string fields: a list
\* does not fit a string field.
Unmarshal(form) ==
    IF \E f \in Fields : Len(form[f]) > 1
    THEN Decoded(Untyped("json: cannot unmarshal array into Go struct field"), ZeroTarget)
    ELSE Decoded(Nil, [f \in Fields |-> IF form[f] = <<>> THEN "" ELSE form[f][1]])

\* Context.BindJSON
BindJSON(body) ==
    IF body.malformed
    THEN Decoded(Untyped("invalid character"), ZeroTarget)
    ELSE Unmarshal(body.form)

\* Context.BindForm: form values -> map (one value: scalar, else the list)
\* -> JSON -> target.
BindForm(body) ==
    IF body.malformed
    THEN Decoded(Untyped("invalid URL escape"), ZeroTarget)
    ELSE LET formMap == [f \in {g \in Fields : body.form[g] # <<>>} |-> body.form[f]]
         IN  Unmarshal([f \in Fields |-> IF f \in DOMAIN formMap THEN formMap[f] ELSE <<>>])

\* Whether a value fails one validate tag.
Fails(t, value) ==
    CASE t.tag = "required" -> value = ""
      [] t.tag = "email"    -> ~Contains(value, "@")
      [] t.tag = "min"      -> Len(value) < t.n
      [] OTHER              -> FALSE

\* validate.Struct: per field, in declaration order, the first tag that fails.
FailingTags(rule, vals) ==
    {i \in DOMAIN rule.tags : Fails(rule.tags[i], vals[rule.field])}

RECURSIVE Validate(_, _)
Validate(target, vals) ==
    IF target = <<>> THEN <<>>
    ELSE LET rule == Head(target)
             bad  == FailingTags(rule, vals)
             rest == Validate(Tail(target), vals)
         IN  IF bad = {} THEN rest
             ELSE LET i == CHOOSE j \in bad : \A k \in bad : j <= k
                  IN  <<[field |-> rule.field, tag |-> rule.tags[i].tag,
                         param |-> rule.tags[i].param]>> \o rest

\* The message Bind gives one validation error.
FieldMessage(e) ==
    IF e.param # ""
    THEN e.field \o " must be " \o e.tag \o " " \o e.param
    ELSE e.field \o " is invalid (" \o e.tag \o ")"

\* The loop of Bind that collects the messages per field.
RECURSIVE CollectErrors(_, _)
CollectErrors(valErr, errs) ==
    IF valErr = <<>> THEN errs
    ELSE LET e == Head(valErr)
         IN  CollectErrors(Tail(valErr),
                           [errs EXCEPT ![e.field] = Append(@, FieldMessage(e))])

\* Bind as it would be if a validation failure were returned like a decoding
\* failure: a 400 without field errors.
Bind_ValidationAsBadRequest(r, body, target) ==
    LET d == IF IsJSON(r) THEN BindJSON(body) ELSE BindForm(body)
    IN  IF d.err # Nil
        THEN HTTPError(400, d.err.Message, NilErrors)
        ELSE IF Validate(target, d.vals) # <<>>
             THEN HTTPError(400, "Validation failed", NilErrors)
             ELSE Nil

\* Context.Bind
Bind(r, body, target) ==
    LET d == IF IsJSON(r) THEN BindJSON(body) ELSE BindForm(body)
    IN  IF d.err # Nil
        THEN HTTPError(400, d.err.Message, NilErrors)
        ELSE LET valErr == Validate(target, d.vals)
             IN  IF valErr # <<>>
                 THEN UnprocessableEntity([nil |-> FALSE,
                                           m |-> CollectErrors(valErr, NoMessages)])
                 ELSE Nil

\* ------------------------------------------------------- Action Dispatcher

\* handleActionError as it would be if only the content type decided the
\* format: field errors sent to a form client as plain text.
handleActionError_ContentTypeOnly(c, s, r, err) ==
    IF c.written THEN Result(c, s, Nil)
    ELSE IF err.typ = "http"
    THEN IF IsJSON(r)
         THEN JSON(c, s, err.Code,
                   IF ~err.Errors.nil THEN ErrorsBody(err.Errors)
                   ELSE ErrorBody(err.Message))
         ELSE Result(c, HttpError(s, err.Message, err.Code), Nil)
    ELSE IF IsJSON(r)
         THEN JSON(c, s, 500, ErrorBody("Internal Server Error"))
         ELSE Result(c, HttpError(s, "Internal Server Error", 500), Nil)

\* handleActionError as it would be if the default branch sent err.Error().
handleActionError_SendsCause(c, s, r, err) ==
    IF c.written THEN Result(c, s, Nil)
    ELSE IF err.typ = "http"
    THEN IF IsJSON(r) \/ ~err.Errors.nil
         THEN JSON(c, s, err.Code,
                   IF ~err.Errors.nil THEN ErrorsBody(err.Errors)
                   ELSE ErrorBody(err.Message))
         ELSE Result(c, HttpError(s, err.Message, err.Code), Nil)
    ELSE IF IsJSON(r)
         THEN JSON(c, s, 500, ErrorBody(err.Message))
         ELSE Result(c, HttpError(s, err.Message, 500), Nil)
handleActionError_IgnoresWritten(c, s, r, err) ==
    IF err.typ = "http"
    THEN IF IsJSON(r) \/ ~err.Errors.nil
         THEN JSON(c, s, err.Code,
                   IF ~err.Errors.nil THEN ErrorsBody(err.Errors)
                   ELSE ErrorBody(err.Message))
         ELSE Result(c, HttpError(s, err.Message, err.Code), Nil)
    ELSE IF IsJSON(r)
         THEN JSON(c, s, 500, ErrorBody("Internal Server Error"))
         ELSE Result(c, HttpError(s, "Internal Server Error", 500), Nil)

\* handleActionError
handleActionError(c, s, r, err) ==
    IF c.written THEN Result(c, s, Nil)
    ELSE IF err.typ = "http"
    THEN IF IsJSON(r) \/ ~err.Errors.nil
         THEN JSON(c, s, err.Code,
                   IF ~err.Errors.nil THEN ErrorsBody(err.Errors)
                   ELSE ErrorBody(err.Message))
         ELSE Result(c, HttpError(s, err.Message, err.Code), Nil)
    ELSE IF IsJSON(r)
         THEN JSON(c, s, 500, ErrorBody("Internal Server Error"))
         ELSE Result(c, HttpError(s, "Internal Server Error", 500), Nil)

\* DevErrorHandler: the status, then the header (too late to be sent), then
\* the diagnostic page, which shows the fault and its stack.
DevErrorHandler(s, fault) ==
    Write(SetContentType(WriteHeader(s, 500), "text/html; charset=utf-8"),
          Chunk("html", "devpage", fault, NilErrors))

ProdErrorHandler_ShowsFault(s, fault) ==
    Write(SetContentType(WriteHeader(s, 500), "application/json"),
          Chunk("json", "error", fault, NilErrors))

\* ProdErrorHandler up to its call of Log.Error.
ProdErrorHandler(s, fault) ==
    Write(SetContentType(WriteHeader(s, 500), "application/json"),
          Chunk("json", "error", "Something went wrong", NilErrors))

\* The guard of ActionHandler picks the development page only with an app
\* whose configured environment is "development".
DevMode(conf) == conf.app /\ conf.env = "development"

\* ------------------------------------------------ one dispatch, step by step

\* The process around the dispatch: whether the action was adapted with an App
\* (ActionHandler) or without (Wrap), App.Config.App.Env, whether InitLogger
\* has set Log, whether Boot has set App.Renderer.
Config(app, env, log, renderer) ==
    [app |-> app, env |-> env, log |-> log, renderer |-> renderer]

Configs ==
    { Config(FALSE, "", FALSE, FALSE),            \* Wrap, nothing booted
      Config(FALSE, "", TRUE, FALSE),             \* Wrap beside a booted App
      Config(TRUE, "development", FALSE, FALSE),  \* New() without Boot
      Config(TRUE, "test", FALSE, FALSE),         \* the test Suite: New() without Boot
      Config(TRUE, "development", TRUE, TRUE),    \* booted, development
      Config(TRUE, "production", TRUE, TRUE) }    \* booted, production

Request(method, contentType) == [method |-> method, contentType |-> contentType]

Requests ==
    { Request(m, ct) : m \in {"GET", "POST"},
                       ct \in {"application/json; charset=utf-8",
                               "application/x-www-form-urlencoded"} }

\* Texts of the errors and faults of the action.
Messages == {"boom", "dial tcp 10.0.0.5:5432: refused"}

NoBind == [body |-> Body(TRUE, NoValues), target |-> <<>>, called |-> FALSE, err |-> Nil]

\* What an action may return besides the value of its last Context call.
ReturnValues ==
    {Nil}
    \cup {Untyped(m) : m \in Messages}
    \cup {BadRequest(Untyped("boom")), NotFound("no such post"), Forbidden("forbidden"),
          InternalError(Untyped("boom"))}
    \cup {UnprocessableEntity([nil |-> FALSE,
                               m |-> [NoMessages EXCEPT !.Email = <<"Email is taken">>]])}

\* JSON calls of the action: (status, value).
JSONCalls == {<<200, Payload("ok")>>, <<201, Payload("ok")>>, <<200, Unencodable>>}

\* Bind calls of the action: (body, target).
BindCalls == {<<b, CreateUserInput>> : b \in Bodies}
             \cup {<<Body(FALSE, [NoValues EXCEPT !.Name = <<"Ann">>]), LoginInput>>}

Fault(msg) == [typ |-> "panic", Code |-> 0, Message |-> msg, Errors |-> NilErrors]

Writers == {"JSON", "Render", "Redirect", "Status"}

\* ActionHandler, entry: a Context of its own for the request.
Invoke(r) ==
    /\ pc = "idle"
    /\ pc' = "action"
    /\ req' = r
    /\ ctx' = NewContext
    /\ sink' = NewSink
    /\ UNCHANGED <<cfg, lastErr, bound, ret, hcalls>>
    /\ UNCHANGED <<rvars, lvars, mvars, ivars, gvars, evars, wvars>>

\* Whether a call reached the client: a status line, body bytes, or a
\* WriteHeader that came too late.
Wrote(s, t) ==
    \/ t.committed # s.committed
    \/ t.body # s.body
    \/ t.superfluous # s.superfluous

\* The action has called a Context method, with this result.
Called(op, res) ==
    /\ pc = "action"
    /\ Len(hcalls) < MaxHandlerOps
    /\ ctx' = res.ctx
    /\ sink' = res.sink
    /\ lastErr' = res.err
    /\ hcalls' = Append(hcalls, [op |-> op, wrote |-> Wrote(sink, res.sink)])
    /\ UNCHANGED <<cfg, pc, req, ret>>
    /\ UNCHANGED <<rvars, lvars, mvars, ivars, gvars, evars, wvars>>

CallJSON(status, v) ==
    /\ Called("JSON", JSON(ctx, sink, status, v))
    /\ UNCHANGED bound

CallRender(template) ==
    /\ Called("Render", Render(ctx, sink, cfg, template))
    /\ UNCHANGED bound

CallRedirect(url) ==
    /\ Called("Redirect", Redirect(ctx, sink, req, url))
    /\ UNCHANGED bound

CallStatus(code) ==
    /\ Called("Status", Status(ctx, sink, code))
    /\ UNCHANGED bound

\* The request body is read once.
CallBind(body, target) ==
    /\ ~bound.called
    /\ Called("Bind", Result(ctx, sink, Bind(req, body, target)))
    /\ bound' = [body |-> body, target |-> target, called |-> TRUE,
                 err |-> Bind(req, body, target)]

\* The action returns e: nil, an error of its own, or what its last call returned.
Return(e) ==
    /\ pc = "action"
    /\ pc' = "returned"
    /\ ret' = e
    /\ UNCHANGED <<cfg, req, ctx, sink, lastErr, bound, hcalls>>
    /\ UNCHANGED <<rvars, lvars, mvars, ivars, gvars, evars, wvars>>

\* The action panics.
Panic(msg) ==
    /\ pc = "action"
    /\ pc' = "panicking"
    /\ ret' = Fault(msg)
    /\ UNCHANGED <<cfg, req, ctx, sink, lastErr, bound, hcalls>>
    /\ UNCHANGED <<rvars, lvars, mvars, ivars, gvars, evars, wvars>>

\* ActionHandler after the action returned: handleActionError for a non-nil error.
Finish ==
    /\ pc = "returned"
    /\ pc' = "done"
    /\ LET res == IF ret # Nil THEN handleActionError(ctx, sink, req, ret)
                  ELSE Result(ctx, sink, Nil)
       IN  ctx' = res.ctx /\ sink' = res.sink
    /\ UNCHANGED <<cfg, req, lastErr, bound, ret, hcalls>>
    /\ UNCHANGED <<rvars, lvars, mvars, ivars, gvars, evars, wvars>>

\* The deferred guard of ActionHandler: the page for the mode; ProdErrorHandler
\* ends with Log.Error, a nil dereference when Log was never initialised, and
\* that fault leaves the dispatcher.
Recover ==
    /\ pc = "panicking"
    /\ IF DevMode(cfg)
       THEN /\ sink' = DevErrorHandler(sink, ret.Message)
            /\ pc' = "done"
       ELSE /\ sink' = ProdErrorHandler(sink, ret.Message)
            /\ pc' = IF cfg.log THEN "done" ELSE "crashed"
    /\ UNCHANGED <<cfg, req, ctx, lastErr, bound, ret, hcalls>>
    /\ UNCHANGED <<rvars, lvars, mvars, ivars, gvars, evars, wvars>>

HandlerStep ==
    \/ \E j \in JSONCalls : CallJSON(j[1], j[2])
    \/ \E template \in {"index", "missing"} : CallRender(template)
    \/ CallRedirect("/login")
    \/ CallStatus(204)
    \/ \E b \in BindCalls : CallBind(b[1], b[2])
    \/ \E e \in ReturnValues \cup {lastErr} : Return(e)
    \/ \E msg \in Messages : Panic(msg)

Next ==
    \/ \E r \in Requests : Invoke(r)
    \/ HandlerStep
    \/ Finish
    \/ Recover

\* ----------------------------------------------------- properties: the dispatch

\* The calls of the action that reached the client.
HandlerWrites == {i \in DOMAIN hcalls : hcalls[i].wrote}

\* The calls of the action to a Context writer.
WriterCalls == {i \in DOMAIN hcalls : hcalls[i].op \in Writers}

\* One response: one status line, no second WriteHeader, at most one body.
OneResponse(s) == s.committed /\ s.superfluous = 0 /\ Len(s.body) <= 1

\* C1: once a first writer call has written the response, a second writer
\* call of the action (JSON, Render, Redirect, Status) changes neither the
\* status already sent nor the body already sent.
C1_SecondWriteChangesNothing ==
    [][(pc = "action" /\ pc' = "action" /\ ctx.written /\ sink.committed)
        => (sink'.status = sink.status /\ sink'.body = sink.body)]_vars

\* C2: when the dispatch returns, exactly one response has been written,
\* for an action that returns nil after writing once and for one that
\* returns an HTTPError, returns an untyped error or panics before or after
\* writing once.
C2_ExactlyOneResponse ==
    (/\ pc = "done"
     /\ Cardinality(WriterCalls) <= 1
     /\ Cardinality(HandlerWrites) = Cardinality(WriterCalls)
     /\ ret = Nil => Cardinality(HandlerWrites) = 1)
    => OneResponse(sink)

\* The body handleActionError owes a typed failure.
TypedFailureChunk(r, e) ==
    IF ~e.Errors.nil THEN Chunk("json", "errors", "", e.Errors)
    ELSE IF IsJSON(r) THEN Chunk("json", "error", e.Message, NilErrors)
    ELSE Chunk("text", "", e.Message, NilErrors)

\* C4: an HTTPError e returned before any response write is answered with
\* status e.Code and, when the request is JSON or e carries field errors, the
\* JSON body {errors: e.Errors} (field errors present) or {error: e.Message};
\* in every other case with the plain text e.Message.
C4_TypedFailureMapping ==
    [][(pc = "returned" /\ ret.typ = "http" /\ ~ctx.written)
        => /\ sink'.committed /\ sink'.status = ret.Code
           /\ sink'.body = <<TypedFailureChunk(req, ret)>>
           /\ sink'.sent.ContentType =
                  IF IsJSON(req) \/ ~ret.Errors.nil THEN "application/json"
                  ELSE "text/plain; charset=utf-8"]_vars

C4_Witness ==
    /\ pc = "done" /\ ret.typ = "http" /\ ~ret.Errors.nil /\ ~IsJSON(req)
    /\ HandlerWrites = {}
    /\ sink.status = 422 /\ sink.body = <<Chunk("json", "errors", "", ret.Errors)>>

\* The fixed answer to an untyped failure.
InternalServerErrorChunk(r) ==
    IF IsJSON(r) THEN Chunk("json", "error", "Internal Server Error", NilErrors)
    ELSE Chunk("text", "", "Internal Server Error", NilErrors)

\* C5: an untyped error returned before any response write is answered 500
\* with the fixed text "Internal Server Error" (JSON for a JSON request, plain
\* text otherwise), and the response is the same whatever the error's message.
C5_UntypedFailureHidesCause ==
    [][(pc = "returned" /\ ret.typ = "untyped" /\ ~ctx.written)
        => /\ sink'.committed /\ sink'.status = 500
           /\ sink'.body = <<InternalServerErrorChunk(req)>>
           /\ \A m \in Messages \cup {lastErr.Message} :
                  handleActionError(ctx, sink, req, Untyped(m)).sink = sink']_vars

C5_Witness ==
    /\ pc = "done" /\ ret = Untyped("dial tcp 10.0.0.5:5432: refused")
    /\ HandlerWrites = {}
    /\ sink.status = 500 /\ sink.body = <<InternalServerErrorChunk(req)>>

\* What the body sets each field of the target to, read off the body.
BodyValue(body, f) == IF body.form[f] = <<>> THEN "" ELSE body.form[f][1]

\* The body decodes: well-formed, and no list where the target has a string.
Decodes(body) == ~body.malformed /\ \A f \in Fields : Len(body.form[f]) <= 1

\* The fields of the target that fail one of their validate tags.
FailingFields(body, target) ==
    {target[i].field : i \in {j \in DOMAIN target :
        \E k \in DOMAIN target[j].tags :
            Fails(target[j].tags[k], BodyValue(body, target[j].field))}}

\* C6: when the body decodes and the target fails validation, Bind returns an
\* HTTPError 422 with a non-empty message list for every failing field (and
\* for no other); an action that returns it without writing is answered 422
\* with the JSON body {errors: fieldErrors} whatever the content type, and no
\* call of the action follows the Bind.
C6_BindValidationFailure ==
    /\ (bound.called /\ Decodes(bound.body)
            /\ FailingFields(bound.body, bound.target) # {})
        => /\ bound.err.typ = "http" /\ bound.err.Code = 422
           /\ ~bound.err.Errors.nil
           /\ \A f \in Fields :
                  (bound.err.Errors.m[f] # <<>>)
                      <=> (f \in FailingFields(bound.body, bound.target))
    /\ (pc = "done" /\ bound.called /\ bound.err.Code = 422 /\ ret = bound.err
            /\ WriterCalls = {})
        => /\ sink.committed /\ sink.status = 422 /\ sink.superfluous = 0
           /\ sink.sent.ContentType = "application/json"
           /\ sink.body = <<Chunk("json", "errors", "", bound.err.Errors)>>
           /\ hcalls[Len(hcalls)].op = "Bind"

C6_Witness ==
    /\ pc = "done" /\ bound.called /\ ret = bound.err /\ ~IsJSON(req)
    /\ bound.target = CreateUserInput
    /\ bound.body = Body(FALSE, [NoValues EXCEPT !.Name = <<"Ann">>])
    /\ WriterCalls = {}
    /\ sink.status = 422
    /\ sink.body[1].errs.m["Email"] = <<"Email is invalid (required)">>

\* -------------------------------------------------------------- the path table

\* Registration calls made inside App.Routes before the server starts.
MaxRegs == 3

\* The verbs Router can register.
Methods == {"GET", "POST", "PUT", "PATCH", "DELETE"}

\* chi's methodMap: the methods the tree knows, all of them set by mALL.
mALL == Methods \cup {"CONNECT", "HEAD", "OPTIONS", "TRACE"}

\* A pattern is a sequence of segments: "/posts/{id}/edit" is
\* <<Lit("posts"), Param("id"), Lit("edit")>>, "/" is <<>>, a trailing "/*" is CatchAll.
Lit(v) == [k |-> "lit", v |-> v]

Param(v) == [k |-> "param", v |-> v]

CatchAll == [k |-> "any", v |-> "*"]

\* The order in which the tree tries the children of a node.
Rank(seg) == CASE seg.k = "lit" -> 0 [] seg.k = "param" -> 1 [] OTHER -> 2

\* The node of the tree a pattern ends at: parameter names are not part of it.
Shape(pattern) ==
    [i \in DOMAIN pattern |->
        IF pattern[i].k = "lit" THEN pattern[i] ELSE [k |-> pattern[i].k, v |-> ""]]

\* What a route leads to: an Action behind ActionHandler (a method of a
\* controller, or the n-th function handed to a verb), a plain http.Handler,
\* or the mount handler of sub-router n.
H(t, c, a, n) == [t |-> t, c |-> c, a |-> a, n |-> n]

ControllerAction(c, a) == H("action", c, a, 0)

Func(n) == H("action", "func", "", n)

Plain(name) == H("handler", name, "", 0)

SubMux(n) == H("mux", "", "", n)

NoHandler == H("none", "", "", 0)

Endpoint(method, pattern, h) == [method |-> method, pattern |-> pattern, h |-> h]

Handle_KeepsFirst(tree, methods, pattern, h) ==
    tree \cup {Endpoint(m, pattern, h) :
                  m \in {n \in methods :
                            ~\E e \in tree : e.method = n /\ Shape(e.pattern) = Shape(pattern)}}

\* chi Mux.handle / node.setEndpoint: the endpoint of a method on a node is
\* replaced by a later registration on the same node.
Handle(tree, methods, pattern, h) ==
    {e \in tree : ~(e.method \in methods /\ Shape(e.pattern) = Shape(pattern))}
    \cup {Endpoint(m, pattern, h) : m \in methods}

\* chi Mux.Mount refuses a pattern whose "/*" is in the tree already.
MountPanics(tree, pattern) ==
    \E e \in tree : Shape(e.pattern) = Shape(pattern \o <<CatchAll>>)

\* chi Mux.Mount: the handler on every method of pattern and of pattern + "/*"
\* (pattern + "/" is left out: request paths here have no trailing slash).
ChiMount(tree, pattern, h) ==
    Handle(Handle(tree, mALL, pattern, h), mALL, pattern \o <<CatchAll>>, h)

RECURSIVE Matches(_, _)
\* A request path (a sequence of segment values) fits a pattern.
Matches(pattern, path) ==
    IF pattern = <<>> THEN path = <<>>
    ELSE IF pattern[1].k = "any" THEN path # <<>>
    ELSE IF path = <<>> THEN FALSE
    ELSE /\ pattern[1].k = "lit" => pattern[1].v = path[1]
         /\ Matches(Tail(pattern), Tail(path))

\* The tree tries static children before parameters before the catch-all, and
\* backtracks: of two patterns fitting one path, the first one found.
Before(p, q) ==
    \E i \in 1..Len(p) :
        /\ i <= Len(q)
        /\ Rank(p[i]) < Rank(q[i])
        /\ \A j \in 1..(i - 1) : Rank(p[j]) = Rank(q[j])

RECURSIVE Bindings(_, _)
\* The URL parameters a match adds, as <<key, value>> in path order; the mount
\* handler blanks the value of "*".
Bindings(pattern, path) ==
    IF pattern = <<>> THEN <<>>
    ELSE IF pattern[1].k = "lit" THEN Bindings(Tail(pattern), Tail(path))
    ELSE IF pattern[1].k = "param"
         THEN <<<<pattern[1].v, path[1]>>>> \o Bindings(Tail(pattern), Tail(path))
         ELSE <<<<"*", "">>>>

\* The part of the path a mount hands to its sub-router.
RoutePath(pattern, path) ==
    IF pattern # <<>> /\ pattern[Len(pattern)].k = "any"
    THEN SubSeq(path, Len(pattern), Len(path))
    ELSE <<>>

\* chi node.FindRoute with Mux.routeHTTP's choice between 404 and 405; a
\* method that is not in methodMap is answered 405 before the tree is searched.
FindRoute(tree, method, path) ==
    LET cands == {e \in tree : e.method = method /\ Matches(e.pattern, path)}
    IN  IF method \notin mALL
        THEN [status |-> 405, e |-> Endpoint(method, <<>>, NoHandler)]
        ELSE IF cands # {}
        THEN [status |-> 0,
              e |-> CHOOSE e \in cands :
                        \A f \in cands : f = e \/ Before(e.pattern, f.pattern)]
        ELSE [status |-> IF \E e \in tree : Matches(e.pattern, path) THEN 405 ELSE 404,
              e |-> Endpoint(method, <<>>, NoHandler)]

Response(status, h, params) == [status |-> status, h |-> h, params |-> params]

RECURSIVE ServeHTTP(_, _, _, _, _)
\* chi Mux.ServeHTTP on table id, following mounts; status 0 is a request
\* handed to h.
ServeHTTP(ms, id, method, path, params) ==
    LET r == FindRoute(ms[id], method, path)
    IN  IF r.status # 0 THEN Response(r.status, NoHandler, params)
        ELSE LET ps == params \o Bindings(r.e.pattern, path)
             IN  IF r.e.h.t = "mux"
                 THEN ServeHTTP(ms, r.e.h.n, method, RoutePath(r.e.pattern, path), ps)
                 ELSE Response(0, r.e.h, ps)

\* chi.URLParam, as Context.Param uses it: the last value bound to key.
URLParam(params, key) ==
    LET is == {i \in DOMAIN params : params[i][1] = key}
    IN  IF is = {} THEN ""
        ELSE params[CHOOSE i \in is : \A j \in is : j <= i][2]

\* ------------------------------------------------------------------ the Router

RouteInfo(method, path, handler) ==
    [Method |-> method, Path |-> path, Handler |-> handler]

\* A Router value: its Mux (an index into muxes), prefix and routes; and, for
\* the Router a callback is running on, what made it (kind: root, namespace,
\* nested), the pattern it will be mounted at, the resource name and table of
\* the enclosing Resources call, and the index in calls of the call that made it.
Router(mux, prefix, routes, kind, arg, name, sub, opened) ==
    [mux |-> mux, prefix |-> prefix, routes |-> routes, kind |-> kind,
     arg |-> arg, name |-> name, sub |-> sub, opened |-> opened]

NewRouter == Router(1, <<>>, <<>>, "root", <<>>, "", 0, 0)

addRoute(r, method, path, handler) ==
    [r EXCEPT !.routes = Append(@, RouteInfo(method, r.prefix \o path, handler))]

singleName_DropsOne(name) ==
    IF HasSuffix(name, "ies") THEN SubSeq(name, 1, Len(name) - 3) \o "y"
    ELSE IF HasSuffix(name, "s") THEN SubSeq(name, 1, Len(name) - 1)
    ELSE name

singleName(name) ==
    IF HasSuffix(name, "ies") THEN SubSeq(name, 1, Len(name) - 3) \o "y"
    ELSE IF HasSuffix(name, "ses") \/ HasSuffix(name, "xes")
         THEN SubSeq(name, 1, Len(name) - 2)
    ELSE IF HasSuffix(name, "s") THEN SubSeq(name, 1, Len(name) - 1)
    ELSE name

actionName == "Action"

\* The seven actions of ResourceController.
Capabilities == {"Index", "Create", "New", "Show", "Edit", "Update", "Destroy"}

ActionRoute(cap, method, path) == [cap |-> cap, method |-> method, path |-> path]

ActionRoutes_PatchOnly ==
    << ActionRoute("Index", "GET", <<>>),
       ActionRoute("Create", "POST", <<>>),
       ActionRoute("New", "GET", <<Lit("new")>>),
       ActionRoute("Show", "GET", <<Param("id")>>),
       ActionRoute("Edit", "GET", <<Param("id"), Lit("edit")>>),
       ActionRoute("Update", "PATCH", <<Param("id")>>),
       ActionRoute("Destroy", "DELETE", <<Param("id")>>) >>

\* The routes Resources registers, in its order, each behind the type
\* assertion for its action; paths are relative to "/" + name.
ActionRoutes ==
    << ActionRoute("Index", "GET", <<>>),
       ActionRoute("Create", "POST", <<>>),
       ActionRoute("New", "GET", <<Lit("new")>>),
       ActionRoute("Show", "GET", <<Param("id")>>),
       ActionRoute("Edit", "GET", <<Param("id"), Lit("edit")>>),
       ActionRoute("Update", "PUT", <<Param("id")>>),
       ActionRoute("Update", "PATCH", <<Param("id")>>),
       ActionRoute("Destroy", "DELETE", <<Param("id")>>) >>

RECURSIVE ResourceRoutes(_, _, _, _, _)
\* The body of the function Resources hands to Mux.Route, up to the nested
\* part: r is the Router Resources was called on, tree the new sub-router.
ResourceRoutes(r, tree, name, ctrl, todo) ==
    IF todo = <<>> THEN [r |-> r, tree |-> tree]
    ELSE IF todo[1].cap \in controllers[ctrl]
         THEN ResourceRoutes(
                  addRoute(r, todo[1].method, <<Lit(name)>> \o todo[1].path,
                           ctrl \o "#" \o todo[1].cap),
                  Handle(tree, {todo[1].method}, todo[1].path,
                         ControllerAction(ctrl, todo[1].cap)),
                  name, ctrl, Tail(todo))
         ELSE ResourceRoutes(r, tree, name, ctrl, Tail(todo))

\* One registration call, as remembered in calls: the Router method, its
\* arguments (arg is the verb, or the controller type), the handler it registered, the call that made the Router it was
\* called on (0 for App.Router), and the path its RouteInfo recorded.
Call(op, arg, path, name, h, owner, recorded) ==
    [op |-> op, arg |-> arg, path |-> path, name |-> name, h |-> h,
     owner |-> owner, recorded |-> recorded]

Top == stack[Len(stack)]

SetTop(r) == [stack EXCEPT ![Len(stack)] = r]

Registering == phase = "boot" /\ Len(calls) < MaxRegs

\* Router.GET / POST / PUT / PATCH / DELETE
RouterVerb(method, path) ==
    /\ Registering
    /\ stack' = SetTop(addRoute(Top, method, path, actionName))
    /\ muxes' = [muxes EXCEPT ![Top.mux] =
                     Handle(@, {method}, Top.prefix \o path, Func(Len(calls) + 1))]
    /\ calls' = Append(calls, Call("Verb", method, path, "", Func(Len(calls) + 1),
                                   Top.opened, Top.prefix \o path))
    /\ UNCHANGED <<controllers, phase, resp>>
    /\ UNCHANGED <<dvars, lvars, mvars, ivars, gvars, evars, wvars>>

\* A verb method called, while the callback of Namespace or Resources runs, on
\* the Router that made the callback's Router (the callback is a closure and
\* has both).  Both Routers' routes slices began as one; shared says whether
\* the append lands in the array the inner slice still uses, which depends on
\* the capacity left by the appends made before.
OuterVerb(method, path) ==
    /\ Registering /\ Len(stack) > 1
    /\ LET outer == stack[Len(stack) - 1]
           n == Len(outer.routes)
           entry == RouteInfo(method, outer.prefix \o path, actionName)
       IN  /\ \E shared \in BOOLEAN :
                  stack' = [stack EXCEPT
                               ![Len(stack) - 1] = addRoute(outer, method, path, actionName),
                               ![Len(stack)] =
                                   IF shared /\ Len(Top.routes) > n
                                   THEN [Top EXCEPT !.routes[n + 1] = entry]
                                   ELSE Top]
           /\ muxes' = [muxes EXCEPT ![outer.mux] =
                            Handle(@, {method}, outer.prefix \o path, Func(Len(calls) + 1))]
           /\ calls' = Append(calls, Call("Verb", method, path, "", Func(Len(calls) + 1),
                                          outer.opened, outer.prefix \o path))
    /\ UNCHANGED <<controllers, phase, resp>>
    /\ UNCHANGED <<dvars, lvars, mvars, ivars, gvars, evars, wvars>>

\* Router.Mount
RouterMount(path, handler) ==
    /\ Registering
    /\ stack' = SetTop(addRoute(Top, "*", path \o <<CatchAll>>, "Mounted Handler"))
    /\ calls' = Append(calls, Call("Mount", "*", path, "", Plain(handler),
                                   Top.opened, Top.prefix \o path \o <<CatchAll>>))
    /\ IF MountPanics(muxes[Top.mux], path)
       THEN phase' = "panic" /\ UNCHANGED muxes
       ELSE /\ muxes' = [muxes EXCEPT ![Top.mux] = ChiMount(@, path, Plain(handler))]
            /\ UNCHANGED phase
    /\ UNCHANGED <<controllers, resp>>
    /\ UNCHANGED <<dvars, lvars, mvars, ivars, gvars, evars, wvars>>

\* Router.WebSocket
RouterWebSocket(path, handler) ==
    /\ Registering
    /\ stack' = SetTop(addRoute(Top, "WS", path, "WebSocket"))
    /\ muxes' = [muxes EXCEPT ![Top.mux] = Handle(@, {"GET"}, path, Plain(handler))]
    /\ calls' = Append(calls, Call("WebSocket", "GET", path, "", Plain(handler),
                                   Top.opened, Top.prefix \o path))
    /\ UNCHANGED <<controllers, phase, resp>>
    /\ UNCHANGED <<dvars, lvars, mvars, ivars, gvars, evars, wvars>>

\* Router.Namespace up to the call of fn: the sub-router, and fn starts on it.
NamespaceBegin(prefix) ==
    /\ Registering
    /\ muxes' = Append(muxes, {})
    /\ stack' = Append(stack, Router(Len(muxes) + 1, Top.prefix \o prefix, Top.routes,
                                     "namespace", prefix, "", 0, Len(calls) + 1))
    /\ calls' = Append(calls, Call("Namespace", "", prefix, "", SubMux(Len(muxes) + 1),
                                   Top.opened, Top.prefix \o prefix))
    /\ UNCHANGED <<controllers, phase, resp>>
    /\ UNCHANGED <<dvars, lvars, mvars, ivars, gvars, evars, wvars>>

\* Router.Namespace after fn returned: the routes come back, the sub-router
\* is mounted at prefix on the Mux of the Router Namespace was called on.
NamespaceEnd ==
    /\ phase = "boot" /\ Len(stack) > 1 /\ Top.kind = "namespace"
    /\ LET sub == Top
           r == stack[Len(stack) - 1]
       IN  /\ stack' = [SubSeq(stack, 1, Len(stack) - 1)
                            EXCEPT ![Len(stack) - 1].routes = sub.routes]
           /\ IF MountPanics(muxes[r.mux], sub.arg)
              THEN phase' = "panic" /\ UNCHANGED muxes
              ELSE /\ muxes' = [muxes EXCEPT ![r.mux] =
                                    ChiMount(@, sub.arg, SubMux(sub.mux))]
                   /\ UNCHANGED phase
    /\ UNCHANGED <<controllers, calls, resp>>
    /\ UNCHANGED <<dvars, lvars, mvars, ivars, gvars, evars, wvars>>

\* Router.Resources without a nested function: the sub-router of Mux.Route with
\* the routes of the actions the controller implements, mounted at "/" + name.
Resources(name, ctrl) ==
    /\ Registering
    /\ LET reg == ResourceRoutes(Top, {}, name, ctrl, ActionRoutes)
           id == Len(muxes) + 1
       IN  /\ stack' = SetTop(reg.r)
           /\ calls' = Append(calls, Call("Resources", ctrl, <<Lit(name)>>, name, SubMux(id),
                                          Top.opened, Top.prefix \o <<Lit(name)>>))
           /\ IF MountPanics(muxes[Top.mux], <<Lit(name)>>)
              THEN phase' = "panic" /\ muxes' = Append(muxes, reg.tree)
              ELSE /\ muxes' = [Append(muxes, reg.tree) EXCEPT ![Top.mux] =
                                    ChiMount(@, <<Lit(name)>>, SubMux(id))]
                   /\ UNCHANGED phase
    /\ UNCHANGED <<controllers, resp>>
    /\ UNCHANGED <<dvars, lvars, mvars, ivars, gvars, evars, wvars>>

\* The nested Router as it would be if it were mounted at "/{id}" like Show.
ParentKey_Id(name) == Param("id")

\* The path parameter a nested Router is mounted at.
ParentKey(name) == Param(singleName(name) \o "_id")

\* Router.Resources with a nested function, up to the call of fn[0]: the
\* routes of the controller, the nested Router, and fn[0] starts on it.
ResourcesBegin(name, ctrl) ==
    /\ Registering
    /\ LET reg == ResourceRoutes(Top, {}, name, ctrl, ActionRoutes)
           id == Len(muxes) + 1
       IN  /\ muxes' = muxes \o <<reg.tree, {}>>
           /\ stack' = Append(SetTop(reg.r),
                              Router(id + 1, <<Lit(name), ParentKey(name)>>, reg.r.routes,
                                     "nested", <<Lit(name)>>, name, id, Len(calls) + 1))
           /\ calls' = Append(calls, Call("Resources", ctrl, <<Lit(name)>>, name, SubMux(id),
                                          Top.opened, Top.prefix \o <<Lit(name)>>))
    /\ UNCHANGED <<controllers, phase, resp>>
    /\ UNCHANGED <<dvars, lvars, mvars, ivars, gvars, evars, wvars>>

\* Router.Resources after fn[0] returned: the routes come back, the nested
\* Router is mounted inside the resource's sub-router, and Mux.Route mounts
\* that one at "/" + name.
ResourcesEnd ==
    /\ phase = "boot" /\ Len(stack) > 1 /\ Top.kind = "nested"
    /\ LET nested == Top
           r == stack[Len(stack) - 1]
           inner == [muxes EXCEPT ![nested.sub] =
                         ChiMount(@, <<ParentKey(nested.name)>>, SubMux(nested.mux))]
       IN  /\ stack' = [SubSeq(stack, 1, Len(stack) - 1)
                            EXCEPT ![Len(stack) - 1].routes = nested.routes]
           /\ IF MountPanics(muxes[nested.sub], <<ParentKey(nested.name)>>)
              THEN phase' = "panic" /\ UNCHANGED muxes
              ELSE IF MountPanics(muxes[r.mux], nested.arg)
              THEN phase' = "panic" /\ muxes' = inner
              ELSE /\ muxes' = [inner EXCEPT ![r.mux] =
                                    ChiMount(@, nested.arg, SubMux(nested.sub))]
                   /\ UNCHANGED phase
    /\ UNCHANGED <<controllers, calls, resp>>
    /\ UNCHANGED <<dvars, lvars, mvars, ivars, gvars, evars, wvars>>

\* App.Routes returned and the server accepts requests.
StartServing ==
    /\ phase = "boot" /\ Len(stack) = 1
    /\ phase' = "serve"
    /\ UNCHANGED <<controllers, muxes, stack, calls, resp>>
    /\ UNCHANGED <<dvars, lvars, mvars, ivars, gvars, evars, wvars>>

ServedRequest(method, path) == [method |-> method, path |-> path]

Routed(method, path, r) ==
    [req |-> ServedRequest(method, path),
     status |-> r.status, h |-> r.h, params |-> r.params]

NoResponse == Routed("", <<>>, Response(0, NoHandler, <<>>))

\* Router.Mux.ServeHTTP for the request under observation; the tables do not
\* change once the server runs, so every request meets the same tables.
Serve(method, path) ==
    /\ phase = "serve"
    /\ resp = NoResponse
    /\ resp' = Routed(method, path, ServeHTTP(muxes, 1, method, path, <<>>))
    /\ UNCHANGED <<controllers, muxes, stack, phase, calls>>
    /\ UNCHANGED <<dvars, lvars, mvars, ivars, gvars, evars, wvars>>

\* The controllers of the example application, and one that implements all of
\* ResourceController.
ExampleControllers ==
    [c \in {"UsersController", "PostsController", "CommentsController",
            "CategoriesController"} |->
        CASE c = "UsersController" -> {"Index", "Show", "Create"}
          [] c = "PostsController" -> {"Index", "Show", "Create", "Update", "Destroy"}
          [] c = "CommentsController" -> {"Index", "Create"}
          [] OTHER -> Capabilities]

\* Resources(name, controller) calls.
ResourceCalls == {<<"comments", "CommentsController">>}

\* Resources(name, controller, fn) calls.
NestingCalls ==
    {<<"posts", "PostsController">>, <<"categories", "CategoriesController">>}

\* Requests sent to the server.
ServedRequests ==
    { ServedRequest("GET", <<"status">>),
      ServedRequest("GET", <<"api", "v1", "status">>),
      ServedRequest("DELETE", <<"api", "v1", "status">>),
      ServedRequest("GET", <<"api", "v1", "api", "v1", "status">>),
      ServedRequest("GET", <<"comments">>),
      ServedRequest("GET", <<"posts", "42">>),
      ServedRequest("GET", <<"posts", "42", "comments">>),
      ServedRequest("GET", <<"posts", "new", "comments">>),
      ServedRequest("GET", <<"categories", "42", "comments">>),
      ServedRequest("GET", <<"categories", "new", "comments">>),
      ServedRequest("GET", <<"admin", "queues">>),
      ServedRequest("OPTIONS", <<"admin", "queues">>),
      ServedRequest("PROPFIND", <<"admin", "queues">>),
      ServedRequest("POST", <<"api", "v1", "admin", "queues">>),
      ServedRequest("GET", <<"ws", "chat">>) }

RNext ==
    \/ \E m \in Methods : RouterVerb(m, <<Lit("status")>>)
    \/ RouterMount(<<Lit("admin")>>, "adminPanel")
    \/ RouterWebSocket(<<Lit("ws"), Lit("chat")>>, "HandleChannel")
    \/ NamespaceBegin(<<Lit("api"), Lit("v1")>>)
    \/ NamespaceEnd
    \/ \E c \in ResourceCalls : Resources(c[1], c[2])
    \/ \E c \in NestingCalls : ResourcesBegin(c[1], c[2])
    \/ ResourcesEnd
    \/ StartServing
    \/ \E q \in ServedRequests : Serve(q.method, q.path)

\* Router.Inspect: a row per RouteInfo and the total.
Inspect(r) == [rows |-> r.routes, total |-> Len(r.routes)]

\* The registration calls alone, those on an outer Router among them.
TNext ==
    \/ \E m \in {"GET", "POST"} : RouterVerb(m, <<Lit("status")>>)
    \/ OuterVerb("GET", <<Lit("health")>>)
    \/ RouterMount(<<Lit("admin")>>, "adminPanel")
    \/ RouterWebSocket(<<Lit("ws"), Lit("chat")>>, "HandleChannel")
    \/ NamespaceBegin(<<Lit("api"), Lit("v1")>>)
    \/ NamespaceEnd
    \/ \E c \in ResourceCalls : Resources(c[1], c[2])
    \/ \E c \in NestingCalls : ResourcesBegin(c[1], c[2])
    \/ ResourcesEnd
    \/ StartServing

\* The conventional verb and path of each action, for resource "widgets".
Conventional ==
    {[cap |-> ActionRoutes[i].cap, method |-> ActionRoutes[i].method,
      path |-> <<"widgets">> \o [j \in DOMAIN ActionRoutes[i].path |->
                   IF ActionRoutes[i].path[j].k = "lit"
                   THEN ActionRoutes[i].path[j].v ELSE "7"]] : i \in DOMAIN ActionRoutes}

CNext ==
    \/ Resources("widgets", "WidgetsController")
    \/ StartServing
    \/ \E c \in Conventional : Serve(c.method, c.path)

\* ------------------------------------------------------ properties: the Router

\* C3: for a controller implementing any subset S of the seven actions,
\* registered with Resources("widgets", controller), the request with the
\* conventional verb and path of an action is handed to that action of the
\* controller when the action is in S, and is answered 404 when it is not.
C3_CapabilitySubsetRouting ==
    (phase = "serve" /\ calls # <<>> /\ resp # NoResponse)
    => \A c \in Conventional :
           resp.req = ServedRequest(c.method, c.path)
           => IF c.cap \in controllers["WidgetsController"]
              THEN resp.status = 0 /\ resp.h = ControllerAction("WidgetsController", c.cap)
              ELSE resp.status = 404

\* The singular of the resource names registered here.
Singular(name) ==
    CASE name = "posts" -> "post"
      [] name = "categories" -> "category"
      [] name = "comments" -> "comment"
      [] OTHER -> name

\* Call i is Resources(parent, h, fn) on App.Router and call j, made by fn on
\* the nested Router, is Resources(child, c) with c implementing Index.
NestedIndex(i, j) ==
    /\ calls[i].op = "Resources" /\ calls[i].owner = 0
    /\ calls[j].op = "Resources" /\ calls[j].owner = i
    /\ "Index" \in controllers[calls[j].arg]

\* C7: after Resources(parent, h, fn) with fn registering Resources(child, c)
\* and c implementing Index, GET /parent/v/child is handed to c.Index for
\* every value v, and there Param(singular(parent) + "_id") is v.
C7_NestedIndexReached ==
    phase = "serve"
    => \A i, j \in DOMAIN calls :
           (/\ NestedIndex(i, j)
            /\ resp.req.method = "GET" /\ Len(resp.req.path) = 3
            /\ resp.req.path[1] = calls[i].name /\ resp.req.path[3] = calls[j].name)
           => /\ resp.status = 0
              /\ resp.h = ControllerAction(calls[j].arg, "Index")
              /\ URLParam(resp.params, Singular(calls[i].name) \o "_id") = resp.req.path[2]

C7_Witness ==
    /\ phase = "serve"
    /\ \E i, j \in DOMAIN calls : NestedIndex(i, j) /\ calls[i].name = "categories"
    /\ resp.req = ServedRequest("GET", <<"categories", "new", "comments">>)
    /\ resp.h = ControllerAction("CommentsController", "Index")
    /\ URLParam(resp.params, "category_id") = "new"

\* Call j is a verb registration on the Router handed to a Namespace callback,
\* and no later call records the same verb and path.
NamespacedVerb(j) ==
    /\ calls[j].op = "Verb" /\ calls[j].owner # 0
    /\ calls[calls[j].owner].op = "Namespace"
    /\ ~\E k \in DOMAIN calls :
           k > j /\ calls[k].arg = calls[j].arg /\ calls[k].recorded = calls[j].recorded

\* C8: a route registered with GET/POST/PUT/PATCH/DELETE on the Router handed
\* to the callback of Namespace(prefix, fn) is matched at parentPrefix + prefix
\* + path, the path its RouteInfo records: a request with that verb and path is
\* handed to the route's handler.
C8_NamespacedVerbMatched ==
    phase = "serve"
    => \A j \in DOMAIN calls :
           (/\ NamespacedVerb(j)
            /\ resp.req.method = calls[j].arg
            /\ Matches(calls[j].recorded, resp.req.path))
           => resp.status = 0 /\ resp.h = calls[j].h

\* ---------------------------------------------------------------- RateLimit

\* Largest limit RateLimit is built with, and its window in seconds.
MaxLimit == 2

Window == 2

\* Last reading of the clock, requests entering the in-memory limiter, and
\* requests entering the Redis limiter.
MaxTime == 2

MaxTraffic == 3

MaxPipelines == 2

\* r.RemoteAddr of the clients.
Clients == {"10.0.0.1:5000", "10.0.0.2:5000"}

\* ip := r.RemoteAddr as it would be if all clients shared one record.
ClientKey_Shared(ip) == "10.0.0.1:5000"

\* ip := r.RemoteAddr
ClientKey(ip) == ip

\* key := fmt.Sprintf("ratelimit:%s", r.RemoteAddr)
RedisKey(ip) == "ratelimit:" \o ip

\* t.After(cutoff) over the recorded times.
Valid(times, cutoff) == SelectSeq(times, LAMBDA t : t > cutoff)

\* The locked section of RateLimit on the record of one client.
Counted(times, now, window) == Append(Valid(times, now - window), now)

\* count > limit as it would be if one request more were let through.
TooMany_OneMore(count, limit) == count > limit + 1

\* count > limit
TooMany(count, limit) == count > limit

\* A Redis key holding a sorted set: members (the member is the timestamp, so
\* is the score) and the time it expires at.
NoExpiry == -1

EmptyKey == [members |-> {}, expireAt |-> NoExpiry]

\* Redis drops a key whose time to live is over before any command reads it.
Evict(z, now) == IF z.expireAt # NoExpiry /\ now >= z.expireAt THEN EmptyKey ELSE z

\* ZREMRANGEBYSCORE key 0 max; a sorted set left empty is deleted.
ZRemRangeByScore(z, max) ==
    LET left == {x \in z.members : ~(0 <= x /\ x <= max)}
    IN  IF left = {} THEN EmptyKey ELSE [z EXCEPT !.members = left]

\* ZADD key score member
ZAdd(z, t) == [z EXCEPT !.members = @ \cup {t}]

\* ZCARD key
ZCard(z) == Cardinality(z.members)

\* EXPIRE key seconds
Expire(z, at) == IF z.members = {} THEN z ELSE [z EXCEPT !.expireAt = at]

SetRetryAfter(s, v) == [s EXCEPT !.header.RetryAfter = v]

\* The 429 of RateLimit and redisRateLimit.
TooManyRequests(window) ==
    Write(WriteHeader(SetRetryAfter(NewSink, ToString(window)), 429),
          Chunk("text", "", "Rate limit exceeded", NilErrors))

\* A request inside RateLimit: the client, the time it read, where it stands
\* (zrem, zadd, zcard, expire: the pipeline command Redis runs next; counted;
\* done: replied to; failed: Exec returned an error), the count it got, the
\* count it would have got alone, its response and whether it was passed to next.
Entry(ip, t, stage, count, alone) ==
    [ip |-> ip, t |-> t, stage |-> stage, count |-> count, alone |-> alone,
     w |-> NewSink, passed |-> FALSE]

SoloRecord(times, z) == [counts |-> times, zset |-> z]

\* counts := make(map[string][]time.Time)
NoCounts == [c \in Clients |-> <<>>]

\* No key of the limiter exists in Redis.
NoKeys == [k \in {RedisKey(c) : c \in Clients} |-> EmptyKey]

NoSolo == [c \in Clients |-> SoloRecord(<<>>, EmptyKey)]

\* No RateLimit in the middleware stack.
NoLimiter == [limit |-> 1, window |-> 1, redis |-> FALSE]

\* Time passes.
Tick ==
    /\ clock < MaxTime
    /\ clock' = clock + 1
    /\ UNCHANGED <<limiter, counts, zsets, traffic, solo>>
    /\ UNCHANGED <<dvars, rvars, mvars, ivars, gvars, evars, wvars>>

\* What RateLimit and redisRateLimit do with a counted request: 429, or
\* next.ServeHTTP.
Replied(e) ==
    IF TooMany(e.count, limiter.limit)
    THEN [e EXCEPT !.stage = "done", !.w = TooManyRequests(limiter.window)]
    ELSE [e EXCEPT !.stage = "done", !.passed = TRUE]

\* RateLimit, in-memory: the locked section, then the reply, which touches
\* nothing shared.
Enter(ip) ==
    /\ ~limiter.redis
    /\ Len(traffic) < MaxTraffic
    /\ LET valid == Counted(counts[ClientKey(ip)], clock, limiter.window)
           alone == Counted(solo[ip].counts, clock, limiter.window)
       IN  /\ counts' = [counts EXCEPT ![ClientKey(ip)] = valid]
           /\ solo' = [solo EXCEPT ![ip].counts = alone]
           /\ traffic' = Append(traffic,
                                Replied(Entry(ip, clock, "counted", Len(valid), Len(alone))))
    /\ UNCHANGED <<limiter, clock, zsets>>
    /\ UNCHANGED <<dvars, rvars, mvars, ivars, gvars, evars, wvars>>

\* redisRateLimit up to pipe.Exec: the time is read, four commands are queued.
RedisEnter(ip) ==
    /\ limiter.redis
    /\ Len(traffic) < MaxPipelines
    /\ traffic' = Append(traffic, Entry(ip, clock, "zrem", 0, 0))
    /\ UNCHANGED <<limiter, clock, counts, zsets, solo>>
    /\ UNCHANGED <<dvars, rvars, mvars, ivars, gvars, evars, wvars>>

\* The commands of the pipeline in the order queued, the last one followed by
\* the reply.
After(stage) ==
    CASE stage = "zrem" -> "zadd"
      [] stage = "zadd" -> "zcard"
      [] stage = "zcard" -> "expire"
      [] OTHER -> "counted"

\* What a command of request e does to its key, run at time now.
Run(stage, z, e, now) ==
    CASE stage = "zrem" -> ZRemRangeByScore(z, e.t - limiter.window)
      [] stage = "zadd" -> ZAdd(z, e.t)
      [] stage = "zcard" -> z
      [] OTHER -> Expire(z, now + limiter.window)

\* Redis runs the next command of request i's pipeline; after the last
\* command Exec returns and the request is replied to.
Command(i, stage) ==
    /\ i \in DOMAIN traffic
    /\ traffic[i].stage = stage
    /\ LET k == RedisKey(traffic[i].ip)
           z == Run(stage, Evict(zsets[k], clock), traffic[i], clock)
           a == Run(stage, Evict(solo[traffic[i].ip].zset, clock), traffic[i], clock)
           e == [traffic[i] EXCEPT
                    !.stage = After(stage),
                    !.count = IF stage = "zcard" THEN ZCard(z) ELSE @,
                    !.alone = IF stage = "zcard" THEN ZCard(a) ELSE @]
       IN  /\ zsets' = [zsets EXCEPT ![k] = z]
           /\ solo' = [solo EXCEPT ![traffic[i].ip].zset = a]
           /\ traffic' = [traffic EXCEPT ![i] =
                              IF e.stage = "counted" THEN Replied(e) ELSE e]
    /\ UNCHANGED <<limiter, clock, counts>>
    /\ UNCHANGED <<dvars, rvars, mvars, ivars, gvars, evars, wvars>>

PipeZRemRangeByScore(i) == Command(i, "zrem")

PipeZAdd(i) == Command(i, "zadd")

PipeZCard(i) == Command(i, "zcard")

PipeExpire(i) == Command(i, "expire")

\* pipe.Exec returns an error: the commands Redis has not run yet are lost,
\* and the request is passed on.
PipeError(i) ==
    /\ i \in DOMAIN traffic
    /\ traffic[i].stage \in {"zrem", "zadd", "zcard", "expire"}
    /\ traffic' = [traffic EXCEPT ![i].stage = "failed", ![i].passed = TRUE]
    /\ UNCHANGED <<limiter, clock, counts, zsets, solo>>
    /\ UNCHANGED <<dvars, rvars, mvars, ivars, gvars, evars, wvars>>

LNext ==
    \/ Tick
    \/ \E ip \in Clients : Enter(ip)
    \/ \E ip \in Clients : RedisEnter(ip)
    \/ \E i \in 1..MaxPipelines : PipeZRemRangeByScore(i)
    \/ \E i \in 1..MaxPipelines : PipeZAdd(i)
    \/ \E i \in 1..MaxPipelines : PipeZCard(i)
    \/ \E i \in 1..MaxPipelines : PipeExpire(i)
    \/ \E i \in 1..MaxPipelines : PipeError(i)

\* ---------------------------------------------------- properties: RateLimit

\* The requests of request i's client that entered no later than i and less
\* than a window before it, i included.
Near(i) ==
    {j \in 1..i : /\ traffic[j].ip = traffic[i].ip
                  /\ traffic[i].t - traffic[j].t < limiter.window}

\* C9: on the in-memory limiter, of the requests of one client whose arrival
\* times lie less than the window apart at most limit are passed to next, and
\* a request arriving when limit requests of its client inside the window were
\* passed already is answered 429 with a Retry-After header and not passed.
C9_AtMostLimitPerWindow ==
    ~limiter.redis
    => \A i \in DOMAIN traffic :
           /\ Cardinality({j \in Near(i) : traffic[j].passed}) <= limiter.limit
           /\ Cardinality({j \in Near(i) \ {i} : traffic[j].passed}) >= limiter.limit
              => /\ ~traffic[i].passed
                 /\ traffic[i].w.committed /\ traffic[i].w.status = 429
                 /\ traffic[i].w.sent.RetryAfter # ""

C9_Witness ==
    /\ ~limiter.redis /\ limiter.limit = 2 /\ Len(traffic) = 3
    /\ \A i \in 1..3 : traffic[i].ip = "10.0.0.1:5000"
    /\ traffic[1].passed /\ traffic[2].passed
    /\ traffic[3].t - traffic[1].t < limiter.window
    /\ ~traffic[3].passed /\ traffic[3].w.status = 429
    /\ traffic[3].w.sent.RetryAfter = ToString(limiter.window)

\* C10: requests of one client never change what the limiter decides for
\* another: every request gets the count, and the admit/reject decision, it
\* would have got had no other client sent a request, and the timestamps
\* recorded for a client are those its own requests left.
C10_ClientsIndependent ==
    /\ \A c \in Clients :
           counts[c] = solo[c].counts /\ zsets[RedisKey(c)] = solo[c].zset
    /\ \A i \in DOMAIN traffic :
           /\ traffic[i].count = traffic[i].alone
           /\ traffic[i].stage = "done"
              => (traffic[i].passed <=> traffic[i].alone <= limiter.limit)

C10_Witness ==
    /\ Len(traffic) = 3
    /\ traffic[1].ip = "10.0.0.2:5000" /\ traffic[1].passed
    /\ traffic[2].ip = "10.0.0.1:5000" /\ traffic[2].passed
    /\ traffic[3].ip = "10.0.0.2:5000" /\ traffic[3].w.status = 429
    /\ counts["10.0.0.1:5000"] = <<traffic[2].t>>

\* ------------------------------------------------------------- CSRF and CORS

\* The request as a middleware reads it: its method, its Content-Type header,
\* the csrf_token cookie (absent, or present with a value), the csrf_token
\* values of the body and of the query string, the X-CSRF-Token header and
\* the Origin header.
HTTPRequest(method, contentType, cookie, body, query, header, origin) ==
    [method |-> method, contentType |-> contentType, cookie |-> cookie,
     body |-> body, query |-> query, header |-> header, origin |-> origin]

NoCookie == [present |-> FALSE, Value |-> ""]

Cookie(value) == [present |-> TRUE, Value |-> value]

NoRequest == [mw |-> "", config |-> <<>>, r |-> <<>>]

\* What a middleware or wrapper did: the response it wrote, how many times it
\* called the next handler, the Set-Cookie and Access-Control-Allow-Origin
\* headers it set, and the error it returned (action wrappers only).
Outcome(w, nexts, setCookie, allowOrigin, err) ==
    [w |-> w, nexts |-> nexts, setCookie |-> setCookie,
     allowOrigin |-> allowOrigin, err |-> err]

NoOutcome == Outcome(NewSink, 0, "", "", Nil)

\* next.ServeHTTP(w, r): the middleware writes nothing itself.
NextServeHTTP(setCookie, allowOrigin) == Outcome(NewSink, 1, setCookie, allowOrigin, Nil)

\* net/http parses a body into the form only for POST, PUT and PATCH and only
\* when the body is a form.
ParsesBody(r) ==
    /\ r.method \in {"POST", "PUT", "PATCH"}
    /\ r.contentType = "application/x-www-form-urlencoded"

\* r.FormValue("csrf_token"): the first value of the field, body before query.
FormValue(r) ==
    LET vs == (IF ParsesBody(r) THEN r.body ELSE <<>>) \o r.query
    IN  IF Len(vs) > 0 THEN vs[1] ELSE ""

\* generateCSRFToken: 32 random bytes, hex-encoded.
generateCSRFToken == "9f86d081884c7d65"

CSRF_CookieOptional(r) ==
    IF Contains(r.contentType, "application/json")
    THEN NextServeHTTP("", "")
    ELSE IF r.method \in {"GET", "HEAD", "OPTIONS"}
    THEN NextServeHTTP(IF r.cookie.present THEN "" ELSE generateCSRFToken, "")
    ELSE LET formToken == IF FormValue(r) = "" THEN r.header ELSE FormValue(r)
         IN  IF formToken # r.cookie.Value
             THEN Outcome(HttpError(NewSink, "CSRF token invalid", 403), 0, "", "", Nil)
             ELSE NextServeHTTP("", "")

CSRF_IssuesCookieFirst(r) ==
    IF ~r.cookie.present /\ r.method \in {"GET", "HEAD", "OPTIONS"}
    THEN NextServeHTTP(generateCSRFToken, "")
    ELSE IF Contains(r.contentType, "application/json")
    THEN NextServeHTTP("", "")
    ELSE IF r.method \in {"GET", "HEAD", "OPTIONS"}
    THEN NextServeHTTP("", "")
    ELSE IF ~r.cookie.present
    THEN Outcome(HttpError(NewSink, "CSRF token missing", 403), 0, "", "", Nil)
    ELSE LET formToken == IF FormValue(r) = "" THEN r.header ELSE FormValue(r)
         IN  IF formToken # r.cookie.Value
             THEN Outcome(HttpError(NewSink, "CSRF token invalid", 403), 0, "", "", Nil)
             ELSE NextServeHTTP("", "")

\* CSRF()(next).ServeHTTP(w, r)
CSRF(r) ==
    IF Contains(r.contentType, "application/json")
    THEN NextServeHTTP("", "")
    ELSE IF r.method \in {"GET", "HEAD", "OPTIONS"}
    THEN NextServeHTTP(IF r.cookie.present THEN "" ELSE generateCSRFToken, "")
    ELSE IF ~r.cookie.present
    THEN Outcome(HttpError(NewSink, "CSRF token missing", 403), 0, "", "", Nil)
    ELSE LET formToken == IF FormValue(r) = "" THEN r.header ELSE FormValue(r)
         IN  IF formToken # r.cookie.Value
             THEN Outcome(HttpError(NewSink, "CSRF token invalid", 403), 0, "", "", Nil)
             ELSE NextServeHTTP("", "")

CORS_PreflightReachesNext(config, r) ==
    LET allowed == \E i \in DOMAIN config : config[i] = "*" \/ config[i] = r.origin
        origin == IF allowed THEN r.origin ELSE ""
    IN  IF r.method = "OPTIONS"
        THEN Outcome(WriteHeader(NewSink, 204), 1, "", origin, Nil)
        ELSE NextServeHTTP("", origin)

\* CORS(config)(next).ServeHTTP(w, r); config is CORSConfig.AllowOrigins.
CORS(config, r) ==
    LET allowed == \E i \in DOMAIN config : config[i] = "*" \/ config[i] = r.origin
        origin == IF allowed THEN r.origin ELSE ""
    IN  IF r.method = "OPTIONS"
        THEN Outcome(WriteHeader(NewSink, 204), 0, "", origin, Nil)
        ELSE NextServeHTTP("", origin)

HTTPMethods == {"GET", "HEAD", "OPTIONS", "POST", "PUT", "PATCH", "DELETE"}

ContentTypes ==
    {"", "application/x-www-form-urlencoded", "application/json",
     "application/json; charset=utf-8"}

Tokens == {"", "a3f1", "77c0"}

Fieldvalues == {<<>>} \cup {<<t>> : t \in Tokens}

Cookies == {NoCookie} \cup {Cookie(t) : t \in Tokens}

Origins == {"", "https://a.example", "https://b.example"}

AllowOrigins == {<<>>, <<"*">>, <<"https://a.example">>}

\* One request through the CSRF middleware.
ServeCSRF(r) ==
    /\ mwreq.mw = ""
    /\ mwreq' = [mw |-> "CSRF", config |-> <<>>, r |-> r]
    /\ mwres' = CSRF(r)
    /\ UNCHANGED <<dvars, rvars, lvars, ivars, gvars, evars, wvars>>

\* One request through the CORS middleware.
ServeCORS(config, r) ==
    /\ mwreq.mw = ""
    /\ mwreq' = [mw |-> "CORS", config |-> config, r |-> r]
    /\ mwres' = CORS(config, r)
    /\ UNCHANGED <<dvars, rvars, lvars, ivars, gvars, evars, wvars>>

\* -------------------------------------------------- auth.Required, RequireRole

\* What the wrappers read of a request: whether InitSessionStore has run, and
\* the user_id and role values of the session ("nil" when the key is absent,
\* "int" for a role that is not a string), and the error the wrapped action
\* returns when it runs.
AuthRequest(store, user_id, role, result) ==
    [store |-> store, user_id |-> user_id, role |-> role, result |-> result]

NilSession == [nil |-> TRUE, user_id |-> "nil", role |-> "nil"]

\* Context.Session: nil without a session store, else the session of the
\* request (a new, empty one when the cookie is absent or does not decode).
Session(r) ==
    IF ~r.store THEN NilSession
    ELSE [nil |-> FALSE, user_id |-> r.user_id, role |-> r.role]

\* next(ctx): the wrapped action runs and its error is returned.
NextAction(r) == Outcome(NewSink, 1, "", "", r.result)

Refused(msg) == Outcome(NewSink, 0, "", "", Forbidden(msg))

Required_SessionSuffices(r) ==
    LET sess == Session(r)
    IN  IF sess.nil THEN Refused("Authentication required")
        ELSE NextAction(r)

\* auth.Required(next)(ctx)
Required(r) ==
    LET sess == Session(r)
    IN  IF sess.nil THEN Refused("Authentication required")
        ELSE IF sess.user_id = "nil" THEN Refused("Authentication required")
        ELSE NextAction(r)

\* sess.Values["role"].(string) with the ok result dropped: "" unless a string.
RoleString(sess) == IF sess.role \in {"nil", "int"} THEN "" ELSE sess.role

\* auth.RequireRole(role, next)(ctx)
RequireRole(role, r) ==
    LET sess == Session(r)
    IN  IF sess.nil THEN Refused("Authentication required")
        ELSE IF sess.user_id = "nil" THEN Refused("Authentication required")
        ELSE IF RoleString(sess) # role THEN Refused("Insufficient permissions")
        ELSE NextAction(r)

Roles == {"admin", "editor"}

AuthRequests ==
    {AuthRequest(s, u, ro, e) :
        s \in BOOLEAN, u \in {"nil", "7"}, ro \in Roles \cup {"nil", "int"},
        e \in {Nil, NotFound("Post not found")}}

\* One call of an action wrapped in auth.Required.
CallRequired(r) ==
    /\ mwreq.mw = ""
    /\ mwreq' = [mw |-> "Required", config |-> <<>>, r |-> r]
    /\ mwres' = Required(r)
    /\ UNCHANGED <<dvars, rvars, lvars, ivars, gvars, evars, wvars>>

\* One call of an action wrapped in auth.RequireRole(role, ...).
CallRequireRole(role, r) ==
    /\ mwreq.mw = ""
    /\ mwreq' = [mw |-> "RequireRole", config |-> <<role>>, r |-> r]
    /\ mwres' = RequireRole(role, r)
    /\ UNCHANGED <<dvars, rvars, lvars, ivars, gvars, evars, wvars>>

MNext ==
    \/ \E m \in HTTPMethods, ct \in ContentTypes, c \in Cookies,
          b \in Fieldvalues, q \in Fieldvalues, h \in Tokens :
          ServeCSRF(HTTPRequest(m, ct, c, b, q, h, ""))
    \/ \E config \in AllowOrigins, m \in HTTPMethods, o \in Origins :
          ServeCORS(config, HTTPRequest(m, "", NoCookie, <<>>, <<>>, "", o))
    \/ \E r \in AuthRequests : CallRequired(r)
    \/ \E role \in Roles, r \in AuthRequests : CallRequireRole(role, r)

\* ------------------------------------------------ generator: pluralize, singularize

\* generator.pluralize
pluralize(s) ==
    IF HasSuffix(s, "y") THEN SubSeq(s, 1, Len(s) - 1) \o "ies"
    ELSE IF HasSuffix(s, "s") \/ HasSuffix(s, "x") THEN s \o "es"
    ELSE s \o "s"

\* generator.singularize
singularize(s) ==
    IF HasSuffix(s, "ies") THEN SubSeq(s, 1, Len(s) - 3) \o "y"
    ELSE IF HasSuffix(s, "ses") \/ HasSuffix(s, "xes")
         THEN SubSeq(s, 1, Len(s) - 2)
    ELSE IF HasSuffix(s, "s") THEN SubSeq(s, 1, Len(s) - 1)
    ELSE s

\* Lowercase words: an onset, a vowel and an ending.  Among them cat, box,
\* city, bus, house, case and movie.
Onsets == {"c", "b", "h", "m"}

Vowels == {"a", "o", "i", "u", "ou"}

Endings == {"t", "x", "ty", "s", "se", "xe", "vie"}

Words == {a \o b \o c : a \in Onsets, b \in Vowels, c \in Endings}

NoNoun == [stage |-> "", w |-> "", plural |-> "", singular |-> ""]

\* The template helper Plural applied to a word.
Pluralize(w) ==
    /\ noun.stage = ""
    /\ noun' = [stage |-> "plural", w |-> w, plural |-> pluralize(w), singular |-> ""]
    /\ UNCHANGED <<dvars, rvars, lvars, mvars, ivars, evars, wvars>>

\* The template helper Singular applied to the plural.
Singularize ==
    /\ noun.stage = "plural"
    /\ noun' = [noun EXCEPT !.stage = "singular", !.singular = singularize(noun.plural)]
    /\ UNCHANGED <<dvars, rvars, lvars, mvars, ivars, evars, wvars>>

GNext ==
    \/ \E w \in Words : Pluralize(w)
    \/ Singularize

\* ----------------------------------------------------- i18n and Locale

MaxLocalized == 3

defaultLocale == "en"

\* The locales Init found a file for.
availableLocales == {"en", "fr", "de"}

\* strings.Split(s, sep)[0] for a one-character sep
FirstPart(s, sep) ==
    LET at == {i \in 1..Len(s) : SubSeq(s, i, i) = sep}
    IN  IF at = {} THEN s
        ELSE SubSeq(s, 1, (CHOOSE i \in at : \A j \in at : i <= j) - 1)

RECURSIVE TrimSpace(_)
TrimSpace(s) ==
    IF Len(s) = 0 THEN s
    ELSE IF SubSeq(s, 1, 1) = " " THEN TrimSpace(SubSeq(s, 2, Len(s)))
    ELSE IF SubSeq(s, Len(s), Len(s)) = " " THEN TrimSpace(SubSeq(s, 1, Len(s) - 1))
    ELSE s

\* The language the Locale middleware takes from a request: the locale query
\* parameter, else the first language of Accept-Language without its region.
Lang(query, accept) ==
    IF query # "" THEN query
    ELSE IF accept # ""
         THEN FirstPart(TrimSpace(FirstPart(FirstPart(accept, ","), ";")), "-")
    ELSE ""

\* i18n.SetLocale
SetLocale(locale) == currentLocale' = locale

\* i18n.GetLocale
GetLocale == currentLocale

\* The locale whose translation i18n.T returns, for a key every locale file has.
T == IF currentLocale \in availableLocales THEN currentLocale ELSE defaultLocale

Localized(query, accept, lang, stage, locale, translated) ==
    [query |-> query, accept |-> accept, lang |-> lang, stage |-> stage,
     locale |-> locale, translated |-> translated]

\* Locale(next).ServeHTTP up to the call of next.
Locale(query, accept) ==
    /\ Len(localized) < MaxLocalized
    /\ LET lang == Lang(query, accept)
       IN  /\ IF lang # "" THEN SetLocale(lang) ELSE UNCHANGED currentLocale
           /\ localized' = Append(localized, Localized(query, accept, lang, "next", "", ""))
    /\ UNCHANGED <<dvars, rvars, lvars, mvars, gvars, evars, wvars>>

\* The handler of request i reads the locale and translates a key.
Translate(i) ==
    /\ i \in DOMAIN localized
    /\ localized[i].stage = "next"
    /\ localized' = [localized EXCEPT ![i].stage = "done",
                                      ![i].locale = GetLocale,
                                      ![i].translated = T]
    /\ UNCHANGED <<currentLocale, dvars, rvars, lvars, mvars, gvars, evars, wvars>>

Queries == {"", "fr"}

AcceptLanguages == {"", "de-DE,de;q=0.9,en;q=0.8", "en"}

INext ==
    \/ \E q \in Queries, a \in AcceptLanguages : Locale(q, a)
    \/ \E i \in 1..MaxLocalized : Translate(i)

\* ----------------------------------------------------- properties: middleware

\* The token a request submits: the csrf_token form field, or the
\* X-CSRF-Token header when the form field is empty.
Submitted(r) == IF FormValue(r) # "" THEN FormValue(r) ELSE r.header

UnsafeForm(r) ==
    /\ ~Contains(r.contentType, "application/json")
    /\ r.method \notin {"GET", "HEAD", "OPTIONS"}

\* C11: a non-JSON request whose method is not GET, HEAD or OPTIONS reaches
\* the next handler exactly when it carries a csrf_token cookie and the token
\* it submits equals the cookie's value; otherwise it is answered 403 and the
\* next handler is not called.
C11_CSRFDoubleSubmit ==
    (mwreq.mw = "CSRF" /\ UnsafeForm(mwreq.r))
    => LET r == mwreq.r
           matches == r.cookie.present /\ Submitted(r) = r.cookie.Value
       IN  /\ matches => mwres.nexts = 1 /\ ~mwres.w.committed
           /\ ~matches => /\ mwres.nexts = 0
                          /\ mwres.w.committed /\ mwres.w.status = 403

C11_Witness ==
    /\ mwreq.mw = "CSRF" /\ mwreq.r.method = "DELETE"
    /\ mwreq.r.contentType = "application/x-www-form-urlencoded"
    /\ mwreq.r.cookie = Cookie("a3f1")
    /\ mwreq.r.body = <<"77c0">> /\ mwreq.r.query = <<>> /\ mwreq.r.header = "a3f1"
    /\ mwres.nexts = 1

\* C12: a request whose Content-Type contains application/json is handed to
\* the next handler unvalidated: it is never answered 403 and no csrf_token
\* cookie is set for it.
C12_CSRFSkipsJSON ==
    (mwreq.mw = "CSRF" /\ Contains(mwreq.r.contentType, "application/json"))
    => /\ mwres.nexts = 1
       /\ ~mwres.w.committed
       /\ mwres.setCookie = ""

C12_Witness ==
    /\ mwreq.mw = "CSRF" /\ mwreq.r.method = "GET"
    /\ mwreq.r.contentType = "application/json; charset=utf-8"
    /\ ~mwreq.r.cookie.present
    /\ mwres.nexts = 1 /\ mwres.setCookie = ""

\* C18: CORS answers an OPTIONS request 204 without calling the next handler,
\* and calls the next handler exactly once for a request of any other method.
C18_CORSPreflight ==
    mwreq.mw = "CORS"
    => IF mwreq.r.method = "OPTIONS"
       THEN mwres.w.committed /\ mwres.w.status = 204 /\ mwres.nexts = 0
       ELSE mwres.nexts = 1 /\ ~mwres.w.committed

C18_Witness ==
    /\ mwreq.mw = "CORS" /\ mwreq.r.method = "OPTIONS"
    /\ mwreq.config = <<"https://a.example">> /\ mwreq.r.origin = "https://b.example"
    /\ mwres.w.status = 204 /\ mwres.nexts = 0

IsForbidden(e) == e.typ = "http" /\ e.Code = 403

\* C19: an action wrapped in auth.Required runs only when the session exists
\* and holds a user_id; wrapped in auth.RequireRole(role, ...) it runs only
\* when, in addition, the session's role equals role; in every other case the
\* wrapper returns a 403 Forbidden HTTPError and the action does not run.
C19_AuthWrappers ==
    mwreq.mw \in {"Required", "RequireRole"}
    => LET r == mwreq.r
           authenticated == r.store /\ r.user_id # "nil"
           permitted == IF mwreq.mw = "Required" THEN authenticated
                        ELSE authenticated /\ r.role = mwreq.config[1]
       IN  /\ permitted => mwres.nexts = 1 /\ mwres.err = r.result
           /\ ~permitted => mwres.nexts = 0 /\ IsForbidden(mwres.err)

C19_Witness ==
    /\ mwreq.mw = "RequireRole" /\ mwreq.config = <<"admin">>
    /\ mwreq.r.store /\ mwreq.r.user_id = "7" /\ mwreq.r.role = "editor"
    /\ mwres.nexts = 0 /\ mwres.err = Forbidden("Insufficient permissions")

\* ------------------------------------------- properties: faults and the Router

\* C22: whatever the configuration and whatever was written before, the guard
\* of ActionHandler ends a fault of the action: the dispatch returns normally.
C22_GuardRecoversEveryFault ==
    [][pc = "panicking" => pc' = "done"]_vars

\* C23: when the action wrote through a Context writer and then returns a
\* failure, typed or untyped, the dispatcher writes nothing: the response and
\* the Context stay as the action left them.
C23_FailureAfterWriteDropped ==
    [][(pc = "returned" /\ ret # Nil /\ ctx.written)
        => /\ pc' = "done"
           /\ sink' = sink
           /\ ctx' = ctx]_vars

C23_Witness ==
    /\ pc = "done" /\ ctx.written /\ ret = Untyped("boom")
    /\ Len(hcalls) = 1 /\ hcalls[1].op = "JSON"
    /\ sink.status = 200 /\ Len(sink.body) = 1 /\ sink.superfluous = 0


SomethingWentWrong == Chunk("json", "error", "Something went wrong", NilErrors)

\* C13: outside development mode, with the logger initialised, a fault raised
\* before anything was written is answered 500 with the fixed body
\* {"error": "Something went wrong"}, and the response is the same whatever
\* the value of the fault.
C13_ProductionFaultHidesDetail ==
    [][(pc = "panicking" /\ ~DevMode(cfg) /\ cfg.log /\ ~sink.committed)
        => /\ pc' = "done"
           /\ sink'.committed /\ sink'.status = 500
           /\ sink'.body = <<SomethingWentWrong>>
           /\ \A m \in Messages : ProdErrorHandler(sink, m) = sink']_vars

C13_Witness ==
    /\ pc = "done" /\ cfg.env = "production" /\ cfg.log
    /\ ret = Fault("dial tcp 10.0.0.5:5432: refused")
    /\ HandlerWrites = {}
    /\ sink.status = 500 /\ sink.body = <<SomethingWentWrong>>

\* The RouteInfos of one action of WidgetsController: rows when the
\* controller has the action, none otherwise.
WidgetRows(cap, rows) ==
    IF cap \in controllers["WidgetsController"]
    THEN [i \in DOMAIN rows |->
             RouteInfo(rows[i][1], <<Lit("widgets")>> \o rows[i][2],
                       "WidgetsController#" \o cap)]
    ELSE <<>>

\* C29: Resources(name, h) records entries for the actions h has and no
\* others, in the order Index, Create, New, Show, Edit, Update (PUT, then
\* PATCH), Destroy: two for Update, one for each other action.
C29_ResourceEntriesInOrder ==
    [][Len(calls') > Len(calls)
       => stack'[1].routes =
           stack[1].routes
           \o WidgetRows("Index", << <<"GET", <<>>>> >>)
           \o WidgetRows("Create", << <<"POST", <<>>>> >>)
           \o WidgetRows("New", << <<"GET", <<Lit("new")>>>> >>)
           \o WidgetRows("Show", << <<"GET", <<Param("id")>>>> >>)
           \o WidgetRows("Edit", << <<"GET", <<Param("id"), Lit("edit")>>>> >>)
           \o WidgetRows("Update", << <<"PUT", <<Param("id")>>>>,
                                      <<"PATCH", <<Param("id")>>>> >>)
           \o WidgetRows("Destroy", << <<"DELETE", <<Param("id")>>>> >>)]_vars

C29_Witness ==
    /\ Len(calls) = 1
    /\ controllers["WidgetsController"] = {"Index", "Update", "Destroy"}
    /\ Len(stack[1].routes) = 4
    /\ stack[1].routes[2].Method = "PUT" /\ stack[1].routes[3].Method = "PATCH"
    /\ stack[1].routes[3].Handler = "WidgetsController#Update"

\* C24: the Router handed to the nested function of Resources(name, h, fn),
\* called on a Router with prefix P, has the prefix
\* P + "/" + name + "/{" + singular(name) + "_id}".
C24_NestedPrefixComposes ==
    \A k \in DOMAIN stack :
        (k > 1 /\ stack[k].kind = "nested")
        => stack[k].prefix =
               stack[k - 1].prefix
               \o <<Lit(stack[k].name), Param(Singular(stack[k].name) \o "_id")>>

\* Calls i and j register the same verb and path on the same Router, j after
\* i, and no later call on that Router registers them again.
Reregistered(i, j) ==
    /\ i < j
    /\ calls[i].op = "Verb" /\ calls[j].op = "Verb"
    /\ calls[i].arg = calls[j].arg /\ calls[i].path = calls[j].path
    /\ calls[i].owner = calls[j].owner
    /\ ~\E k \in DOMAIN calls :
           /\ k > j /\ calls[k].op = "Verb" /\ calls[k].owner = calls[j].owner
           /\ calls[k].arg = calls[j].arg /\ calls[k].path = calls[j].path

\* C14: once a verb and path were registered twice on a Router, no request is
\* handed to the handler of the earlier registration, and a request with that
\* verb and path to App.Router is handed to the handler of the later one.
C14_LastRegistrationWins ==
    phase = "serve"
    => \A i, j \in DOMAIN calls :
           Reregistered(i, j)
           => /\ resp.h # calls[i].h
              /\ (/\ calls[j].owner = 0
                  /\ resp.req.method = calls[j].arg
                  /\ Matches(calls[j].path, resp.req.path))
                 => resp.status = 0 /\ resp.h = calls[j].h

C14_Witness ==
    /\ phase = "serve" /\ Len(calls) >= 2
    /\ Reregistered(1, 2) /\ calls[1].owner = 0
    /\ resp.req = ServedRequest("GET", <<"status">>)
    /\ resp.status = 0 /\ resp.h = calls[2].h /\ calls[2].h # calls[1].h

\* The entries of App.Router's table that a Mount call accounts for.
MountEntries(i) ==
    {k \in DOMAIN stack[1].routes :
        stack[1].routes[k] = RouteInfo("*", calls[i].recorded, "Mounted Handler")}

\* C16: Mount(path, h) leaves one RouteInfo with method "*" and path prefix +
\* path + "/*" in the table, and a request whose path lies under that path is
\* handed to h whatever its method.
C16_MountDelegatesAll ==
    phase = "serve"
    => \A i \in DOMAIN calls :
           calls[i].op = "Mount"
           => /\ Cardinality(MountEntries(i)) =
                    Cardinality({j \in DOMAIN calls :
                                    calls[j].op = "Mount"
                                    /\ calls[j].recorded = calls[i].recorded})
              /\ (resp # NoResponse /\ Matches(calls[i].recorded, resp.req.path))
                 => resp.status = 0 /\ resp.h = calls[i].h

IsPrefix(s, t) == Len(s) <= Len(t) /\ SubSeq(t, 1, Len(s)) = s

\* The entries of a table that record verb method on path.
VerbEntries(routes, method, path) ==
    {k \in DOMAIN routes : routes[k] = RouteInfo(method, path, actionName)}

\* C15: the table of a Router only grows at its end, also when the table of a
\* callback's Router is merged back; once the registrations are made
\* App.Router's table holds one RouteInfo for each verb registration, in the
\* order of the calls, and Inspect's total is the number of entries.
C15_TableAppendOnly ==
    [][/\ \A k \in DOMAIN stack :
              k \in DOMAIN stack' => IsPrefix(stack[k].routes, stack'[k].routes)
       /\ phase' = "serve"
          => /\ Inspect(stack'[1]).total = Len(stack'[1].routes)
             /\ \A i \in DOMAIN calls' :
                    calls'[i].op = "Verb"
                    => Cardinality(VerbEntries(stack'[1].routes, calls'[i].arg,
                                               calls'[i].recorded))
                       = Cardinality({j \in DOMAIN calls' :
                                         /\ calls'[j].op = "Verb"
                                         /\ calls'[j].arg = calls'[i].arg
                                         /\ calls'[j].recorded = calls'[i].recorded})]_vars

\* ------------------------------------------------- properties: naming, locale

\* Words that are regular English nouns: the plural the suffix rules give
\* is their plural.
RegularNouns ==
    {"cat", "bat", "hat", "mat", "hut", "box", "mix", "city", "bus",
     "case", "base", "house", "hose", "muse", "movie"}

\* C17: singularize(pluralize(w)) = w for every regular noun w.
C17_SingularizeInvertsPluralize ==
    (noun.stage = "singular" /\ noun.w \in RegularNouns) => noun.singular = noun.w

\* The locale a request selects: its language, or the default without one.
Selected(q) == IF q.lang # "" THEN q.lang ELSE defaultLocale

\* C20: whatever the interleaving, the locale a request's handler reads, and
\* the one its translations are made in, is the locale that request selected;
\* a request that selects none is served in the default locale.
C20_LocalePerRequest ==
    \A i \in DOMAIN localized :
        localized[i].stage = "done"
        => /\ localized[i].locale = Selected(localized[i])
           /\ localized[i].translated = Selected(localized[i])

NoFault == [stage |-> ""]

\* The room channels join.
Rooms == {"lobby"}

\* NewHub: no connection, no room.
NewHub == [connections |-> {}, rooms |-> [room \in Rooms |-> {}]]

NoStartup == [stage |-> "", plugins |-> <<>>, next |-> 0, calls |-> <<>>]

NoChain ==
    [stage |-> "idle", target |-> "", wrote |-> FALSE, fault |-> "", records |-> <<>>]

\* ------------------------------------------------------------------- db.Once

\* Calls of Once in one run of the model.
MaxOnce == 3

SeedNames == {"users", "posts"}

\* One call of Once(db, name, fn): its position, the count it read, whether
\* fn returned nil in it, and what the call returned.
OnceCall(name, stage, count, ran, err) ==
    [name |-> name, stage |-> stage, count |-> count, ran |-> ran, err |-> err]

\* SELECT count(*) FROM seed_records WHERE name = ? ; Name carries a unique
\* index, so the table holds a name at most once.
Count(table, name) == IF name \in table THEN 1 ELSE 0

\* INSERT INTO seed_records; a second row of the same name violates the
\* unique index and the table is left as it was. Once ignores the result.
Create(table, name) == table \cup {name}

\* Once is entered: AutoMigrate makes sure the table exists.
OnceEnter(name) ==
    /\ Len(onces) < MaxOnce
    /\ onces' = Append(onces, OnceCall(name, "count", 0, FALSE, ""))
    /\ UNCHANGED <<seeds, heap, inflight, modes, chain>>
    /\ UNCHANGED <<dvars, rvars, lvars, mvars, ivars, gvars, wvars>>

\* The count is read and tested: a recorded seed is skipped and nil returned.
OnceCount(i) ==
    /\ onces[i].stage = "count"
    /\ LET count == Count(seeds, onces[i].name)
       IN  onces' = [onces EXCEPT ![i].count = count,
                                  ![i].stage = IF count > 0 THEN "skipped" ELSE "fn"]
    /\ UNCHANGED <<seeds, heap, inflight, modes, chain>>
    /\ UNCHANGED <<dvars, rvars, lvars, mvars, ivars, gvars, wvars>>

\* fn runs: an error is wrapped and returned, nothing is recorded.
OnceFn(i, ok) ==
    /\ onces[i].stage = "fn"
    /\ onces' = [onces EXCEPT ![i].ran = ok,
                              ![i].stage = IF ok THEN "create" ELSE "failed",
                              ![i].err = IF ok THEN "" ELSE "Seed failed"]
    /\ UNCHANGED <<seeds, heap, inflight, modes, chain>>
    /\ UNCHANGED <<dvars, rvars, lvars, mvars, ivars, gvars, wvars>>

\* The seed is recorded and nil returned.
OnceCreate(i) ==
    /\ onces[i].stage = "create"
    /\ seeds' = Create(seeds, onces[i].name)
    /\ onces' = [onces EXCEPT ![i].stage = "completed"]
    /\ UNCHANGED <<heap, inflight, modes, chain>>
    /\ UNCHANGED <<dvars, rvars, lvars, mvars, ivars, gvars, wvars>>

ONext ==
    \/ \E name \in SeedNames : OnceEnter(name)
    \/ \E i \in DOMAIN onces : OnceCount(i)
    \/ \E i \in DOMAIN onces, ok \in BOOLEAN : OnceFn(i, ok)
    \/ \E i \in DOMAIN onces : OnceCreate(i)

\* --------------------------------------------------------- properties: db.Once

\* C21: among the calls of Once with one name, in any order or interleaving,
\* fn completes successfully in at most one.
C21_FnCompletesAtMostOnce ==
    \A name \in SeedNames :
        Cardinality({i \in DOMAIN onces : onces[i].name = name /\ onces[i].ran}) <= 1

\* ------------------------------------------- the guard's mode and Recovery's

Envs == {"", "development", "production", "test"}

\* What LoadConfig yields for app.env: a value of the configuration files, or
\* an error when app.yaml cannot be read.
LoadConfigs == Envs \cup {"unreadable"}

Adapters == {"ActionHandler", "Wrap"}

Faults == {"boom", "nil pointer dereference"}

\* New(): on a LoadConfig error the defaults are used; APP_ENV and
\* Config.App.Env are made equal, APP_ENV winning when it is set.
New(appEnv, loaded) ==
    LET cfgEnv == IF loaded = "unreadable" THEN "development" ELSE loaded
        env == IF appEnv # "" THEN appEnv
               ELSE IF cfgEnv # "" THEN cfgEnv
               ELSE "development"
    IN  [APP_ENV |-> env, env |-> env]

\* The page the guard of ActionHandler renders for a recovered fault.
GuardPage(conf) ==
    IF DevMode(conf) THEN "DevErrorHandler" ELSE "ProdErrorHandler"

\* The page Recovery renders for a recovered fault.
Recovery(appEnv) ==
    LET env == IF appEnv = "" THEN "development" ELSE appEnv
    IN  IF env = "development" THEN "DevErrorHandler" ELSE "ProdErrorHandler"

\* A process: APP_ENV, the App made by New (if any) with what LoadConfig
\* gave it and its Config.App.Env, how the action was adapted, the fault, and
\* the page each guard selected.
Process(stage, appEnv, app, loaded, env, adapter, fault, guard, recovery) ==
    [stage |-> stage, APP_ENV |-> appEnv, app |-> app, loaded |-> loaded,
     env |-> env, adapter |-> adapter, fault |-> fault, guard |-> guard,
     recovery |-> recovery]

\* The process starts in some environment.
Start(appEnv) ==
    /\ modes.stage = ""
    /\ modes' = Process("started", appEnv, FALSE, "", "", "", "", "", "")
    /\ UNCHANGED <<seeds, onces, heap, inflight, chain>>
    /\ UNCHANGED <<dvars, rvars, lvars, mvars, ivars, gvars, wvars>>

\* framework.New() builds the App.
CallNew(loaded) ==
    /\ modes.stage = "started"
    /\ ~modes.app
    /\ LET n == New(modes.APP_ENV, loaded)
       IN  modes' = [modes EXCEPT !.APP_ENV = n.APP_ENV, !.env = n.env,
                                  !.app = TRUE, !.loaded = loaded]
    /\ UNCHANGED <<seeds, onces, heap, inflight, chain>>
    /\ UNCHANGED <<dvars, rvars, lvars, mvars, ivars, gvars, wvars>>

\* An action is adapted into an http.HandlerFunc: ActionHandler(app, action)
\* needs the App, Wrap(action) is ActionHandler(nil, action).
Adapt(adapter) ==
    /\ modes.stage = "started"
    /\ adapter = "ActionHandler" => modes.app
    /\ modes' = [modes EXCEPT !.stage = "adapted", !.adapter = adapter]
    /\ UNCHANGED <<seeds, onces, heap, inflight, chain>>
    /\ UNCHANGED <<dvars, rvars, lvars, mvars, ivars, gvars, wvars>>

\* A fault is raised while a request is served.
Raise(fault) ==
    /\ modes.stage = "adapted"
    /\ modes' = [modes EXCEPT !.stage = "faulted", !.fault = fault]
    /\ UNCHANGED <<seeds, onces, heap, inflight, chain>>
    /\ UNCHANGED <<dvars, rvars, lvars, mvars, ivars, gvars, wvars>>

\* The deferred recover of ActionHandler selects its page for the fault.
GuardSelects ==
    /\ modes.stage = "faulted"
    /\ modes.guard = ""
    /\ modes' = [modes EXCEPT !.guard =
                    GuardPage(Config(modes.adapter = "ActionHandler", modes.env,
                                     FALSE, FALSE))]
    /\ UNCHANGED <<seeds, onces, heap, inflight, chain>>
    /\ UNCHANGED <<dvars, rvars, lvars, mvars, ivars, gvars, wvars>>

\* The deferred recover of Recovery selects its page for the same fault.
RecoverySelects ==
    /\ modes.stage = "faulted"
    /\ modes.recovery = ""
    /\ modes' = [modes EXCEPT !.recovery = Recovery(modes.APP_ENV)]
    /\ UNCHANGED <<seeds, onces, heap, inflight, chain>>
    /\ UNCHANGED <<dvars, rvars, lvars, mvars, ivars, gvars, wvars>>

ENext ==
    \/ \E appEnv \in Envs : Start(appEnv)
    \/ \E loaded \in LoadConfigs : CallNew(loaded)
    \/ \E adapter \in Adapters : Adapt(adapter)
    \/ \E fault \in Faults : Raise(fault)
    \/ GuardSelects
    \/ RecoverySelects

\* ------------------------------------------------ properties: the two guards

\* C28: for one process environment and one fault, the guard of the
\* dispatcher and Recovery select the same page, whether the action was
\* adapted by ActionHandler with an App or by Wrap.
C28_GuardsAgreeOnMode ==
    (modes.stage = "faulted" /\ modes.guard # "" /\ modes.recovery # "")
    => modes.guard = modes.recovery

\* C28 for ActionHandler with the App made by New: the two agree.
GuardsAgreeWithApp ==
    (/\ modes.stage = "faulted" /\ modes.guard # "" /\ modes.recovery # ""
     /\ modes.adapter = "ActionHandler")
    => modes.guard = modes.recovery

\* ------------------------------------------- properties: the Redis pipeline

\* The requests redisRateLimit has replied to after a pipeline that ran whole.
Counted26 == {i \in DOMAIN traffic : traffic[i].stage = "done"}

\* The ways of putting the counted requests one before the other.
Orders26 ==
    {rank \in [Counted26 -> 1..Len(traffic)] :
        \A i, j \in Counted26 : rank[i] = rank[j] => i = j}

\* The requests of i's key ordered before i that are inside i's window.
Before26(rank, i) ==
    {j \in Counted26 : /\ traffic[j].ip = traffic[i].ip
                       /\ rank[j] < rank[i]
                       /\ traffic[j].t > traffic[i].t - limiter.window}

\* C26: on the Redis limiter the pipelines of the requests run one after the
\* other: there is an order of the requests in which the count each request
\* observed is the number of requests of its key inside its window ordered
\* before it, plus one for itself. Stated for requests that read distinct
\* times and pipelines none of which failed.
C26_PipelineAtomic ==
    (/\ limiter.redis
     /\ \A i \in DOMAIN traffic : traffic[i].stage # "failed"
     /\ \A i, j \in DOMAIN traffic : traffic[i].t = traffic[j].t => i = j)
    => \E rank \in Orders26 :
           \A i \in Counted26 :
               traffic[i].count = Cardinality(Before26(rank, i)) + 1

\* ------------------------------------------------ RateLimit, step by step

\* mu as it would be if Lock never waited.
Held_Never(requests) == FALSE

\* mu is held by a request between mu.Lock() and mu.Unlock().
Held(requests) ==
    \E i \in DOMAIN requests : requests[i].stage \in {"locked", "filtered"}

\* A request enters the in-memory RateLimit and calls mu.Lock(); valid is the
\* local slice of its handler.
Arrive(ip) ==
    /\ ~limiter.redis
    /\ Len(traffic) < MaxTraffic
    /\ traffic' = Append(traffic, Entry(ip, 0, "lock", 0, 0) @@ [valid |-> <<>>])
    /\ UNCHANGED <<limiter, clock, counts, zsets, solo>>
    /\ UNCHANGED <<dvars, rvars, mvars, ivars, gvars, evars, wvars>>

\* mu.Lock() returns; ip and now are read.
Lock(i) ==
    /\ traffic[i].stage = "lock"
    /\ ~Held(traffic)
    /\ traffic' = [traffic EXCEPT ![i].stage = "locked", ![i].t = clock]
    /\ UNCHANGED <<limiter, clock, counts, zsets, solo>>
    /\ UNCHANGED <<dvars, rvars, mvars, ivars, gvars, evars, wvars>>

\* The recorded times after the cutoff are copied and now is appended.
Filter(i) ==
    /\ traffic[i].stage = "locked"
    /\ traffic' = [traffic EXCEPT
                      ![i].stage = "filtered",
                      ![i].valid = Counted(counts[ClientKey(traffic[i].ip)],
                                           traffic[i].t, limiter.window)]
    /\ UNCHANGED <<limiter, clock, counts, zsets, solo>>
    /\ UNCHANGED <<dvars, rvars, mvars, ivars, gvars, evars, wvars>>

\* counts[ip] = valid; count := len(valid); mu.Unlock(); then the reply, which
\* touches nothing shared.
Unlock(i) ==
    /\ traffic[i].stage = "filtered"
    /\ counts' = [counts EXCEPT ![ClientKey(traffic[i].ip)] = traffic[i].valid]
    /\ traffic' = [traffic EXCEPT ![i] =
                      Replied([traffic[i] EXCEPT !.stage = "counted",
                                                 !.count = Len(traffic[i].valid)])]
    /\ UNCHANGED <<limiter, clock, zsets, solo>>
    /\ UNCHANGED <<dvars, rvars, mvars, ivars, gvars, evars, wvars>>

KNext ==
    \/ Tick
    \/ \E ip \in Clients : Arrive(ip)
    \/ \E i \in DOMAIN traffic : Lock(i)
    \/ \E i \in DOMAIN traffic : Filter(i)
    \/ \E i \in DOMAIN traffic : Unlock(i)

\* ----------------------------------------------------- properties: the lock

\* The requests of client c.
Of(c) == {i \in DOMAIN traffic : traffic[i].ip = c}

Min(a, b) == IF a < b THEN a ELSE b

\* C25: once the N requests of one client, all inside one window, have left
\* the in-memory limiter, in whatever order they took the lock, the record of
\* the client holds N timestamps and min(N, limit) of the requests were passed
\* to next; while a request is between Lock and Unlock no other is.
C25_LockedSectionLosesNothing ==
    /\ \A i, j \in DOMAIN traffic :
           (traffic[i].stage \in {"locked", "filtered"}
            /\ traffic[j].stage \in {"locked", "filtered"}) => i = j
    /\ \A c \in Clients :
           (/\ \A i \in Of(c) : traffic[i].stage = "done"
            /\ \A i, j \in Of(c) : traffic[i].t - traffic[j].t < limiter.window)
           => /\ Len(counts[c]) = Cardinality(Of(c))
              /\ Cardinality({i \in Of(c) : traffic[i].passed})
                 = Min(Cardinality(Of(c)), limiter.limit)

\* Three requests of one client arrived before any took the lock; limit 2.
C25_Witness ==
    /\ Len(traffic) = 3 /\ limiter.limit = 2
    /\ \A i \in 1..3 : traffic[i].ip = "10.0.0.1:5000" /\ traffic[i].stage = "done"
    /\ traffic[3].t - traffic[1].t < limiter.window
    /\ traffic[2].count = 1 /\ traffic[1].count = 2 /\ traffic[3].count = 3
    /\ ~traffic[3].passed /\ traffic[1].passed /\ traffic[2].passed
    /\ Len(counts["10.0.0.1:5000"]) = 3

\* ------------------------------------------------- one Context per request

\* Requests in flight in one run of the model.
MaxInflight == 2

Principals == {"alice", "bob"}

Paths == {"/posts", "/health"}

\* &Context{...} as it would be if Contexts came from a pool of one.
Allocate_Pooled(objects) == 1

\* &Context{...}: the address of a newly allocated Context.
Allocate(objects) == Len(objects) + 1

\* Context.SetCurrentUser, on the field of the Context.
SetCurrentUser(c, u) == [c EXCEPT !.currentUser = u]

\* A request the server is serving: its route, where its goroutine stands,
\* the address of the Context its action was handed (0: none yet) and what
\* the request itself has done through that Context.
Serving(path, stage, c, own) ==
    [path |-> path, stage |-> stage, c |-> c, own |-> own]

\* The heap with a Context stored at address a.
Stored(objects, a, c) ==
    IF a \in DOMAIN objects THEN [objects EXCEPT ![a] = c] ELSE Append(objects, c)

\* net/http starts a goroutine for an inbound request.
Accept(path) ==
    /\ Len(inflight) < MaxInflight
    /\ inflight' = Append(inflight, Serving(path, "accepted", 0, NewContext))
    /\ UNCHANGED <<seeds, onces, heap, modes, chain>>
    /\ UNCHANGED <<dvars, rvars, lvars, mvars, ivars, gvars, wvars>>

\* ActionHandler: ctx := NewContext(w, r, app), then the action is called
\* with it.
Dispatch(i) ==
    /\ inflight[i].stage = "accepted"
    /\ LET a == Allocate(heap)
       IN  /\ heap' = Stored(heap, a, NewContext)
           /\ inflight' = [inflight EXCEPT ![i].stage = "action", ![i].c = a]
    /\ UNCHANGED <<seeds, onces, modes, chain>>
    /\ UNCHANGED <<dvars, rvars, lvars, mvars, ivars, gvars, wvars>>

\* The action of request i writes a response through its Context.
ActionWrites(i, code) ==
    /\ inflight[i].stage = "action"
    /\ ~inflight[i].own.written
    /\ heap' = [heap EXCEPT ![inflight[i].c] = Status(@, NewSink, code).ctx]
    /\ inflight' = [inflight EXCEPT ![i].own = Status(@, NewSink, code).ctx]
    /\ UNCHANGED <<seeds, onces, modes, chain>>
    /\ UNCHANGED <<dvars, rvars, lvars, mvars, ivars, gvars, wvars>>

\* The action of request i sets the current principal on its Context.
ActionSetsCurrentUser(i, u) ==
    /\ inflight[i].stage = "action"
    /\ inflight[i].own.currentUser = "nil"
    /\ heap' = [heap EXCEPT ![inflight[i].c] = SetCurrentUser(@, u)]
    /\ inflight' = [inflight EXCEPT ![i].own = SetCurrentUser(@, u)]
    /\ UNCHANGED <<seeds, onces, modes, chain>>
    /\ UNCHANGED <<dvars, rvars, lvars, mvars, ivars, gvars, wvars>>

\* The action returns and ActionHandler with it; nothing refers to the
\* Context any longer.
ActionReturns(i) ==
    /\ inflight[i].stage = "action"
    /\ inflight' = [inflight EXCEPT ![i].stage = "returned"]
    /\ UNCHANGED <<seeds, onces, heap, modes, chain>>
    /\ UNCHANGED <<dvars, rvars, lvars, mvars, ivars, gvars, wvars>>

HNext ==
    \/ \E path \in Paths : Accept(path)
    \/ \E i \in DOMAIN inflight : Dispatch(i)
    \/ \E i \in DOMAIN inflight, code \in {200, 404} : ActionWrites(i, code)
    \/ \E i \in DOMAIN inflight, u \in Principals : ActionSetsCurrentUser(i, u)
    \/ \E i \in DOMAIN inflight : ActionReturns(i)

\* ------------------------------------------------- properties: the Context

\* The requests whose action has been handed a Context.
Invoked == {i \in DOMAIN inflight : inflight[i].c # 0}

\* C27: every invocation is handed a Context of its own, new at that moment
\* (written false, no status code, no current principal); no Context is
\* handed to two invocations; and what can be read through the Context of a
\* request is what that request did through it, whatever the other requests
\* write or set in the meantime.
C27_ContextPerRequest ==
    /\ \A i, j \in Invoked : inflight[i].c = inflight[j].c => i = j
    /\ \A i \in Invoked : heap[inflight[i].c] = inflight[i].own

\* Two requests to one route in their actions at once: the first has written
\* 404 and set alice, the second, dispatched after that, has done nothing yet.
C27_Witness ==
    /\ Len(inflight) >= 2
    /\ inflight[1].path = inflight[2].path
    /\ inflight[1].stage = "action" /\ inflight[2].stage = "action"
    /\ inflight[1].c = 1 /\ inflight[2].c = 2
    /\ heap[1] = [written |-> TRUE, statusCode |-> 404, currentUser |-> "alice"]
    /\ heap[2] = NewContext

\* ------------------------------------------------- the default chain of Boot

\* The configurations of a process after New() and Boot(): Log and Renderer
\* are set, APP_ENV equals Config.App.Env.
Booted == {conf \in Configs : conf.app /\ conf.log /\ conf.renderer}

\* What the router finds for the request: an action adapted by ActionHandler,
\* a plain http.Handler (the /metrics handler, a mounted handler), or nothing.
Targets == {"action", "handler", "none"}

\* WrapResponseWriter.Status as it would be if it reported 200 regardless.
WrapStatus_AlwaysOK(s) == 200

\* WrapResponseWriter.Status: the code of the first WriteHeader (or 200 of
\* the first Write), 0 while nothing was written.
WrapStatus(s) == IF s.committed THEN s.status ELSE 0

\* The request inside the chain: where it stands (idle, downstream,
\* panicking: a fault is unwinding towards Recovery, completed: next.ServeHTTP
\* returned to Logger, logged), what the router found, whether the plain
\* handler wrote before it failed, the fault Recovery caught, and the records
\* Logger emitted.
InChain(stage, target, wrote, fault, records) ==
    [stage |-> stage, target |-> target, wrote |-> wrote, fault |-> fault,
     records |-> records]

\* Logger: start and ww are set up and next.ServeHTTP(ww, r) is called;
\* Recovery and SecureHeaders pass the request on and the router matches it.
LoggerServes(target) ==
    /\ chain.stage = "idle"
    /\ pc = "chain"
    /\ chain' = [chain EXCEPT !.stage = "downstream", !.target = target]
    /\ pc' = IF target = "action" THEN "idle" ELSE pc
    /\ sink' = NewSink
    /\ UNCHANGED <<cfg, req, ctx, lastErr, bound, ret, hcalls>>
    /\ UNCHANGED <<seeds, onces, heap, inflight, modes>>
    /\ UNCHANGED <<rvars, lvars, mvars, ivars, gvars, wvars>>

\* A plain handler serves the request: it may write, and it may panic, before
\* or after writing.
HandlerServes(writes, fault) ==
    /\ chain.stage = "downstream" /\ chain.target = "handler"
    /\ sink' = IF writes THEN Write(sink, Chunk("text", "", "ok", NilErrors)) ELSE sink
    /\ chain' = [chain EXCEPT !.stage = IF fault = "" THEN "completed" ELSE "panicking",
                              !.wrote = writes, !.fault = fault]
    /\ UNCHANGED <<cfg, pc, req, ctx, lastErr, bound, ret, hcalls>>
    /\ UNCHANGED <<seeds, onces, heap, inflight, modes>>
    /\ UNCHANGED <<rvars, lvars, mvars, ivars, gvars, wvars>>

\* No route matches: the router's NotFound handler answers.
RouterNotFound ==
    /\ chain.stage = "downstream" /\ chain.target = "none"
    /\ sink' = HttpError(sink, "404 page not found", 404)
    /\ chain' = [chain EXCEPT !.stage = "completed"]
    /\ UNCHANGED <<cfg, pc, req, ctx, lastErr, bound, ret, hcalls>>
    /\ UNCHANGED <<seeds, onces, heap, inflight, modes>>
    /\ UNCHANGED <<rvars, lvars, mvars, ivars, gvars, wvars>>

\* The deferred recover of Recovery renders the page of its mode.
RecoveryRecovers ==
    /\ chain.stage = "panicking"
    /\ sink' = IF Recovery(cfg.env) = "DevErrorHandler"
               THEN DevErrorHandler(sink, chain.fault)
               ELSE ProdErrorHandler(sink, chain.fault)
    /\ chain' = [chain EXCEPT !.stage = "completed"]
    /\ UNCHANGED <<cfg, pc, req, ctx, lastErr, bound, ret, hcalls>>
    /\ UNCHANGED <<seeds, onces, heap, inflight, modes>>
    /\ UNCHANGED <<rvars, lvars, mvars, ivars, gvars, wvars>>

\* next.ServeHTTP has returned to Logger.
Downstream ==
    \/ chain.stage = "completed"
    \/ chain.stage = "downstream" /\ chain.target = "action" /\ pc = "done"

\* The deferred function of Logger: one record, when Log is set.
LoggerLogs ==
    /\ Downstream
    /\ chain' = [chain EXCEPT
                    !.stage = "logged",
                    !.records = IF cfg.log
                                THEN Append(@, [method |-> req.method,
                                                status |-> WrapStatus(sink)])
                                ELSE @]
    /\ UNCHANGED dvars
    /\ UNCHANGED <<seeds, onces, heap, inflight, modes>>
    /\ UNCHANGED <<rvars, lvars, mvars, ivars, gvars, wvars>>

BNext ==
    \/ \E target \in Targets : LoggerServes(target)
    \/ \E r \in Requests : Invoke(r)
    \/ HandlerStep
    \/ Finish
    \/ Recover
    \/ \E writes \in BOOLEAN, fault \in Messages \cup {""} : HandlerServes(writes, fault)
    \/ RouterNotFound
    \/ RecoveryRecovers
    \/ LoggerLogs

\* ----------------------------------------------------- properties: Logger

\* A fault of the handler was recovered, by the guard of ActionHandler or by
\* Recovery.
FaultRecovered ==
    \/ chain.target = "action" /\ ret.typ = "panic"
    \/ chain.target = "handler" /\ chain.fault # ""

\* The handler had reached the client before the fault.
WroteBeforeFault ==
    \/ chain.target = "action" /\ \E k \in DOMAIN hcalls : hcalls[k].wrote
    \/ chain.target = "handler" /\ chain.wrote

\* C30: in a booted process Logger emits one record for the request, not
\* before everything downstream of it has returned, and the status of the
\* record is the status that was written downstream of it: the 500 of the
\* guard of ActionHandler or of Recovery when a fault was recovered and that
\* 500 was written, the status the handler had already committed otherwise.
C30_LoggerRecordsWrittenStatus ==
    /\ Len(chain.records) <= 1
    /\ chain.records # <<>> <=> chain.stage = "logged"
    /\ chain.stage = "logged"
       => /\ chain.target = "action" => pc = "done"
          /\ sink.committed => chain.records[1].status = sink.status
          /\ (FaultRecovered /\ ~WroteBeforeFault)
             => sink.committed /\ chain.records[1].status = 500

\* A fault of an action recovered by the guard and logged as 500.
C30_Witness ==
    /\ chain.stage = "logged" /\ chain.target = "action"
    /\ ret = Fault("boom") /\ hcalls = <<>>
    /\ cfg.env = "production"
    /\ chain.records = <<[method |-> "POST", status |-> 500]>>

\* A fault of a plain handler recovered by Recovery and logged as 500.
LoggedRecovery ==
    /\ chain.stage = "logged" /\ chain.target = "handler"
    /\ chain.fault = "boom" /\ ~chain.wrote
    /\ chain.records = <<[method |-> "GET", status |-> 500]>>

\* ------------------------------------------------ naming, rule by rule

\* The words the naming functions are applied to: the words and their plurals.
Nouns == Words \cup {pluralize(w) : w \in Words}

\* The last n characters of s, and s without them.
LastChars(s, n) == IF Len(s) < n THEN "" ELSE SubSeq(s, Len(s) - n + 1, Len(s))

Chop(s, n) == SubSeq(s, 1, Len(s) - n)

\* A word is pluralized by the generator and made singular by the generator
\* and by the Router.
Name(w) ==
    /\ noun.stage = ""
    /\ noun' = [stage |-> "named", w |-> w, plural |-> pluralize(w),
                singular |-> singularize(w), single |-> singleName(w)]
    /\ UNCHANGED <<dvars, rvars, lvars, mvars, ivars, evars, wvars>>

\* The names are used and the next word is taken.
Forget ==
    /\ noun.stage = "named"
    /\ noun' = NoNoun
    /\ UNCHANGED <<dvars, rvars, lvars, mvars, ivars, evars, wvars>>

ANext ==
    \/ \E w \in Nouns : Name(w)
    \/ Forget

\* ------------------------------------------------------ properties: naming

\* C31: pluralize replaces a final y by ies, appends es after s or x and s
\* otherwise; singularize turns a final ies into y, drops two characters of
\* a final ses or xes, one character of another final s, and leaves any other
\* word alone; singleName gives what singularize gives.
C31_NamingRules ==
    noun.stage = "named"
    => /\ noun.plural =
            (CASE LastChars(noun.w, 1) = "y" -> Chop(noun.w, 1) \o "ies"
               [] LastChars(noun.w, 1) \in {"s", "x"} -> noun.w \o "es"
               [] OTHER -> noun.w \o "s")
       /\ noun.singular =
            (CASE LastChars(noun.w, 3) = "ies" -> Chop(noun.w, 3) \o "y"
               [] LastChars(noun.w, 3) \in {"ses", "xes"} -> Chop(noun.w, 2)
               [] LastChars(noun.w, 3) \notin {"ies", "ses", "xes"} /\ LastChars(noun.w, 1) = "s"
                    -> Chop(noun.w, 1)
               [] OTHER -> noun.w)
       /\ noun.single = noun.singular

\* boxes: plural boxeses, singular box by both functions.
C31_Witness ==
    /\ noun.stage = "named" /\ noun.w = "boxes"
    /\ noun.plural = "boxeses" /\ noun.singular = "box" /\ noun.single = "box"

\* ---------------------------------------------- properties: Context.written

\* C32: the Context of a dispatch starts with written false, and once a
\* writer has set written no Context call and no step of the dispatcher
\* (handleActionError, the guard) sets it back.
C32_WrittenMonotonic ==
    [][/\ (pc = "idle" /\ pc' = "action") => ~ctx'.written
       /\ (pc # "idle" /\ ctx.written) => ctx'.written]_vars

\* Written by JSON, then a Redirect on the committed response, then a fault
\* the guard recovered: written still holds.
C32_Witness ==
    /\ pc = "done" /\ ctx.written /\ ret.typ = "panic"
    /\ Len(hcalls) = 2 /\ hcalls[1].op = "JSON" /\ hcalls[2].op = "Redirect"

\* ------------------------------------------------------------- queue.Worker

\* Tasks the worker processes in one run of the model.
MaxJobs == 3

JobTypes == {"email:welcome", "report:daily"}

\* What the registered handler does with a task.
Outcomes == {"nil", "error", "panic"}

\* framework.RecordJobProcessed(jobType, status), for the task it is about.
RecordJobProcessed(counter, job, jobType, status) ==
    Append(counter, [job |-> job, type |-> jobType, status |-> status])

\* The server takes a task and calls the handler the Mux holds for it, the
\* loggingHandler around the registered one: success or failure is counted
\* and the error returned; a panic of the registered handler passes through
\* loggingHandler and the server turns it into an error.
ProcessTask(jobType, outcome) ==
    /\ Len(jobs) < MaxJobs
    /\ jobs' = Append(jobs, [type |-> jobType, outcome |-> outcome,
                             stage |-> IF outcome = "nil" THEN "done" ELSE "failed"])
    /\ processed' = CASE outcome = "nil" ->
                           RecordJobProcessed(processed, Len(jobs) + 1, jobType, "success")
                      [] outcome = "error" ->
                           RecordJobProcessed(processed, Len(jobs) + 1, jobType, "failure")
                      [] OTHER -> processed
    /\ UNCHANGED <<hub, channels, startup>>
    /\ UNCHANGED <<dvars, rvars, lvars, mvars, ivars, gvars, evars>>

\* The server hands the error of a failed task to Config.ErrorHandler.
ErrorHandler(i) ==
    /\ jobs[i].stage = "failed"
    /\ jobs' = [jobs EXCEPT ![i].stage = "done"]
    /\ processed' = RecordJobProcessed(processed, i, jobs[i].type, "failure")
    /\ UNCHANGED <<hub, channels, startup>>
    /\ UNCHANGED <<dvars, rvars, lvars, mvars, ivars, gvars, evars>>

WNext ==
    \/ \E jobType \in JobTypes, outcome \in Outcomes : ProcessTask(jobType, outcome)
    \/ \E i \in DOMAIN jobs : ErrorHandler(i)

\* ------------------------------------------------- properties: queue.Worker

\* The increments of the counter made for task i.
CountedFor(i) == {k \in DOMAIN processed : processed[k].job = i}

\* C33: a task the worker is done with was counted exactly once, as success
\* when its handler returned nil and as failure when it returned an error.
C33_JobCountedOnce ==
    \A i \in DOMAIN jobs :
        (jobs[i].stage = "done" /\ jobs[i].outcome \in {"nil", "error"})
        => /\ Cardinality(CountedFor(i)) = 1
           /\ \A k \in CountedFor(i) :
                  processed[k].status =
                      IF jobs[i].outcome = "nil" THEN "success" ELSE "failure"

\* C33 for the tasks whose handler returned nil: counted once, as success.
SucceededCountedOnce ==
    \A i \in DOMAIN jobs :
        jobs[i].outcome = "nil"
        => /\ Cardinality(CountedFor(i)) = 1
           /\ \A k \in CountedFor(i) : processed[k].status = "success"

\* ---------------------------------------------------------- websocket.Hub

\* Connections accepted, and messages read on one connection, in one run of
\* the model.
MaxConns == 2

MaxMessages == 1

\* The deferred calls of HandleChannel as they would run in the order they
\* were registered.
Deferred_InOrder(connected) ==
    IF connected THEN <<"Close", "delete", "OnDisconnect">> ELSE <<"Close", "delete">>

\* The deferred calls of HandleChannel in the order Go runs them, last
\* registered first: OnDisconnect (registered only after OnConnect returned
\* nil), the removal from h.connections, c.Close.
Deferred(connected) ==
    IF connected THEN <<"OnDisconnect", "delete", "Close">> ELSE <<"delete", "Close">>

\* Hub.JoinRoom
HubJoinRoom(h, room, c) == [h EXCEPT !.rooms[room] = @ \cup {c}]

\* Hub.LeaveRoom
HubLeaveRoom(h, room, c) == [h EXCEPT !.rooms[room] = @ \ {c}]

\* The callbacks of the Channel, inside which the WSContext is in its hands.
Callbacks == {"OnConnect", "OnMessage", "OnDisconnect"}

\* One connection served by HandleChannel: where its handler stands (a
\* callback, reading, deferred: the handler is returning, closed: it has
\* returned), the callbacks and the removal in the order they happened,
\* whether OnConnect returned nil, the deferred calls still to run, the
\* messages read, and whether a broadcast was sent to it after it closed.
Conn(stage) ==
    [stage |-> stage, events |-> <<>>, connected |-> FALSE, pending |-> <<>>,
     msgs |-> 0, late |-> FALSE]

\* websocket.Accept succeeds and the connection is put into h.connections.
AcceptConn ==
    /\ Len(channels) < MaxConns
    /\ channels' = Append(channels, Conn("accepted"))
    /\ hub' = [hub EXCEPT !.connections = @ \cup {Len(channels) + 1}]
    /\ UNCHANGED <<jobs, processed, startup>>
    /\ UNCHANGED <<dvars, rvars, lvars, mvars, ivars, gvars, evars>>

\* ch.OnConnect(wsCtx) is called.
OnConnect(i) ==
    /\ channels[i].stage = "accepted"
    /\ channels' = [channels EXCEPT ![i].stage = "OnConnect",
                                    ![i].events = Append(@, "OnConnect")]
    /\ UNCHANGED <<jobs, processed, hub, startup>>
    /\ UNCHANGED <<dvars, rvars, lvars, mvars, ivars, gvars, evars>>

\* A callback of the channel calls ctx.JoinRoom(room).
JoinRoom(i, room) ==
    /\ channels[i].stage \in Callbacks
    /\ hub' = HubJoinRoom(hub, room, i)
    /\ UNCHANGED <<jobs, processed, channels, startup>>
    /\ UNCHANGED <<dvars, rvars, lvars, mvars, ivars, gvars, evars>>

\* A callback of the channel calls ctx.LeaveRoom(room).
LeaveRoom(i, room) ==
    /\ channels[i].stage \in Callbacks
    /\ hub' = HubLeaveRoom(hub, room, i)
    /\ UNCHANGED <<jobs, processed, channels, startup>>
    /\ UNCHANGED <<dvars, rvars, lvars, mvars, ivars, gvars, evars>>

\* OnConnect returns: on an error the handler returns, otherwise OnDisconnect
\* is deferred and the read loop starts.
OnConnectReturns(i, ok) ==
    /\ channels[i].stage = "OnConnect"
    /\ channels' = [channels EXCEPT
                      ![i].connected = ok,
                      ![i].stage = IF ok THEN "reading" ELSE "deferred",
                      ![i].pending = IF ok THEN <<>> ELSE Deferred(FALSE)]
    /\ UNCHANGED <<jobs, processed, hub, startup>>
    /\ UNCHANGED <<dvars, rvars, lvars, mvars, ivars, gvars, evars>>

\* c.Read returns a message and ch.OnMessage is called with it.
ReadMessage(i) ==
    /\ channels[i].stage = "reading"
    /\ channels[i].msgs < MaxMessages
    /\ channels' = [channels EXCEPT ![i].stage = "OnMessage",
                                    ![i].msgs = @ + 1,
                                    ![i].events = Append(@, "OnMessage")]
    /\ UNCHANGED <<jobs, processed, hub, startup>>
    /\ UNCHANGED <<dvars, rvars, lvars, mvars, ivars, gvars, evars>>

\* OnMessage returns: on an error the loop is left.
OnMessageReturns(i, ok) ==
    /\ channels[i].stage = "OnMessage"
    /\ channels' = [channels EXCEPT
                      ![i].stage = IF ok THEN "reading" ELSE "deferred",
                      ![i].pending = IF ok THEN <<>> ELSE Deferred(TRUE)]
    /\ UNCHANGED <<jobs, processed, hub, startup>>
    /\ UNCHANGED <<dvars, rvars, lvars, mvars, ivars, gvars, evars>>

\* c.Read returns an error (the peer is gone): the loop is left.
ReadFails(i) ==
    /\ channels[i].stage = "reading"
    /\ channels' = [channels EXCEPT ![i].stage = "deferred",
                                    ![i].pending = Deferred(TRUE)]
    /\ UNCHANGED <<jobs, processed, hub, startup>>
    /\ UNCHANGED <<dvars, rvars, lvars, mvars, ivars, gvars, evars>>

\* The deferred ch.OnDisconnect(wsCtx) is called.
DeferredOnDisconnect(i) ==
    /\ channels[i].stage = "deferred"
    /\ channels[i].pending # <<>> /\ Head(channels[i].pending) = "OnDisconnect"
    /\ channels' = [channels EXCEPT ![i].stage = "OnDisconnect",
                                    ![i].pending = Tail(@),
                                    ![i].events = Append(@, "OnDisconnect")]
    /\ UNCHANGED <<jobs, processed, hub, startup>>
    /\ UNCHANGED <<dvars, rvars, lvars, mvars, ivars, gvars, evars>>

\* OnDisconnect returns; its error is dropped.
OnDisconnectReturns(i) ==
    /\ channels[i].stage = "OnDisconnect"
    /\ channels' = [channels EXCEPT ![i].stage = "deferred"]
    /\ UNCHANGED <<jobs, processed, hub, startup>>
    /\ UNCHANGED <<dvars, rvars, lvars, mvars, ivars, gvars, evars>>

\* The deferred delete(h.connections, c).
DeferredDelete(i) ==
    /\ channels[i].stage = "deferred"
    /\ channels[i].pending # <<>> /\ Head(channels[i].pending) = "delete"
    /\ hub' = [hub EXCEPT !.connections = @ \ {i}]
    /\ channels' = [channels EXCEPT ![i].pending = Tail(@),
                                    ![i].events = Append(@, "removed")]
    /\ UNCHANGED <<jobs, processed, startup>>
    /\ UNCHANGED <<dvars, rvars, lvars, mvars, ivars, gvars, evars>>

\* The deferred c.Close; the handler has returned.
DeferredClose(i) ==
    /\ channels[i].stage = "deferred"
    /\ channels[i].pending # <<>> /\ Head(channels[i].pending) = "Close"
    /\ channels' = [channels EXCEPT ![i].stage = "closed", ![i].pending = Tail(@)]
    /\ UNCHANGED <<jobs, processed, hub, startup>>
    /\ UNCHANGED <<dvars, rvars, lvars, mvars, ivars, gvars, evars>>

\* Hub.Broadcast and Hub.BroadcastToRoom, called from any goroutine: a
\* message is written to every connection of the set.
SentTo(members) ==
    [i \in DOMAIN channels |->
        IF i \in members /\ channels[i].stage = "closed"
        THEN [channels[i] EXCEPT !.late = TRUE] ELSE channels[i]]

Broadcast ==
    /\ channels # <<>>
    /\ channels' = SentTo(hub.connections)
    /\ UNCHANGED <<jobs, processed, hub, startup>>
    /\ UNCHANGED <<dvars, rvars, lvars, mvars, ivars, gvars, evars>>

BroadcastToRoom(room) ==
    /\ channels # <<>>
    /\ channels' = SentTo(hub.rooms[room])
    /\ UNCHANGED <<jobs, processed, hub, startup>>
    /\ UNCHANGED <<dvars, rvars, lvars, mvars, ivars, gvars, evars>>

UNext ==
    \/ AcceptConn
    \/ \E i \in DOMAIN channels : OnConnect(i)
    \/ \E i \in DOMAIN channels, room \in Rooms : JoinRoom(i, room)
    \/ \E i \in DOMAIN channels, room \in Rooms : LeaveRoom(i, room)
    \/ \E i \in DOMAIN channels, ok \in BOOLEAN : OnConnectReturns(i, ok)
    \/ \E i \in DOMAIN channels : ReadMessage(i)
    \/ \E i \in DOMAIN channels, ok \in BOOLEAN : OnMessageReturns(i, ok)
    \/ \E i \in DOMAIN channels : ReadFails(i)
    \/ \E i \in DOMAIN channels : DeferredOnDisconnect(i)
    \/ \E i \in DOMAIN channels : OnDisconnectReturns(i)
    \/ \E i \in DOMAIN channels : DeferredDelete(i)
    \/ \E i \in DOMAIN channels : DeferredClose(i)
    \/ Broadcast
    \/ \E room \in Rooms : BroadcastToRoom(room)

\* ---------------------------------------------------- properties: the Hub

\* The positions of event e in the events of connection i.
At(i, e) == {k \in DOMAIN channels[i].events : channels[i].events[k] = e}

\* C34: on every connection OnConnect is called once and before any
\* OnMessage; after a successful OnConnect, OnDisconnect is called once, after
\* the last OnMessage and before the connection leaves the connection set;
\* and the connection is in the set from its acceptance until its handler
\* returns and not afterwards, whatever the other connections do.
C34_ChannelLifecycle ==
    \A i \in DOMAIN channels :
        /\ Cardinality(At(i, "OnConnect")) <= 1
        /\ Cardinality(At(i, "OnDisconnect")) <= 1
        /\ Cardinality(At(i, "removed")) <= 1
        /\ channels[i].stage # "accepted" => At(i, "OnConnect") = {1}
        /\ \A m \in At(i, "OnMessage"), d \in At(i, "OnDisconnect") : m < d
        /\ \A d \in At(i, "OnDisconnect"), r \in At(i, "removed") : d < r
        /\ \A m \in At(i, "OnMessage"), r \in At(i, "removed") : m < r
        /\ At(i, "OnDisconnect") # {} => channels[i].connected
        /\ channels[i].stage = "closed"
           => /\ At(i, "removed") # {}
              /\ channels[i].connected => At(i, "OnDisconnect") # {}
              /\ i \notin hub.connections
        /\ At(i, "removed") = {} => i \in hub.connections

\* A connection that received a message and was closed by a read error while
\* another connection is still in a room.
C34_Witness ==
    /\ Len(channels) = 2
    /\ channels[1].stage = "closed"
    /\ channels[1].events = <<"OnConnect", "OnMessage", "OnDisconnect", "removed">>
    /\ channels[2].stage = "reading"
    /\ hub.connections = {2}
    /\ 2 \in hub.rooms["lobby"]

\* C40: a connection whose handler has returned is in no room, and no
\* broadcast to a room is sent to it.
C40_ClosedConnInNoRoom ==
    \A i \in DOMAIN channels :
        channels[i].stage = "closed"
        => /\ \A room \in Rooms : i \notin hub.rooms[room]
           /\ ~channels[i].late

\* ------------------------------------------- properties: nested Resources

\* Call i is Resources(name, h, nestedFn) on the root Router, no other
\* registration of the same name beside it.
Nesting(i) ==
    /\ calls[i].op = "Resources" /\ calls[i].owner = 0
    /\ \E j \in DOMAIN calls : calls[j].owner = i
    /\ ~\E k \in DOMAIN calls : k # i /\ calls[k].owner = 0 /\ calls[k].name = calls[i].name

\* C35: with nestedFn supplied, a request for a member of the parent
\* resource is still handed to the parent's own action: GET /name/v to Show
\* when h implements it.
C35_NestingKeepsMemberRoutes ==
    phase = "serve"
    => \A i \in DOMAIN calls :
           (/\ Nesting(i)
            /\ "Show" \in controllers[calls[i].arg]
            /\ resp.req.method = "GET" /\ Len(resp.req.path) = 2
            /\ resp.req.path[1] = calls[i].name)
           => /\ resp.status = 0
              /\ resp.h = ControllerAction(calls[i].arg, "Show")

\* ------------------------------------------------- start-up of the App (C36)
\* framework.New, App.Register, App.Routes and App.Run/App.Boot, as the calls
\* they make on the Mux of the Router.  startup.calls is the log of the calls
\* the Mux accepted: "Use" for a middleware, "Handle" for a route.

MaxPlugins == 2
MaxRoutes == 2

\* The plugins of the repository by what their Routes method does:
\* healthcheck registers two routes, requestlog adds a middleware when the
\* application has a database and does nothing without one.
PluginKinds == {"healthcheck", "requestlog", "requestlog-nodb"}

PluginRoutes(p) ==
    CASE p = "healthcheck" -> <<[op |-> "Handle", what |-> "/health"],
                                [op |-> "Handle", what |-> "/health/ready"]>>
      [] p = "requestlog"  -> <<[op |-> "Use", what |-> "requestlog"]>>
      [] OTHER             -> <<>>

\* The paths the Routes callback of the application registers.
UserPaths == {"/", "/users"}

UserRoutes ==
    UNION {[1..n -> UserPaths] : n \in 0..MaxRoutes}

\* The four middleware of Boot, in the order of its Use calls.
DefaultMiddleware == <<"RequestID", "Logger", "Recovery", "SecureHeaders">>

\* mx.handler is set by the first route registered on the Mux.
HandlerBuilt(log) ==
    \E i \in DOMAIN log : log[i].op = "Handle"

\* The calls of todo made on a Mux with the log: a Use panics once the Mux
\* has a route, and nothing after the panic is executed.
RECURSIVE MuxCalls(_, _)
MuxCalls(log, todo) ==
    IF todo = <<>> THEN [calls |-> log, panic |-> FALSE]
    ELSE IF Head(todo).op = "Use" /\ HandlerBuilt(log)
         THEN [calls |-> log, panic |-> TRUE]
         ELSE MuxCalls(Append(log, Head(todo)), Tail(todo))

AppNew ==
    /\ startup.stage = ""
    /\ startup' = [stage |-> "new", plugins |-> <<>>, next |-> 0, calls |-> <<>>]
    /\ UNCHANGED <<jobs, processed, hub, channels>>
    /\ UNCHANGED <<dvars, rvars, lvars, mvars, ivars, gvars, evars>>

AppRegister(p) ==
    /\ startup.stage = "new"
    /\ Len(startup.plugins) < MaxPlugins
    /\ startup' = [startup EXCEPT !.plugins = Append(@, p)]
    /\ UNCHANGED <<jobs, processed, hub, channels>>
    /\ UNCHANGED <<dvars, rvars, lvars, mvars, ivars, gvars, evars>>

\* App.Routes runs the callback at once, on the Router of New.
AppRoutes(fn) ==
    /\ startup.stage = "new"
    /\ startup' = [startup EXCEPT
                       !.stage = "routes",
                       !.calls = MuxCalls(@, [i \in DOMAIN fn |->
                                      [op |-> "Handle", what |-> fn[i]]]).calls]
    /\ UNCHANGED <<jobs, processed, hub, channels>>
    /\ UNCHANGED <<dvars, rvars, lvars, mvars, ivars, gvars, evars>>

\* App.Run calls Boot first; Boot starts with bootPlugins.
AppRun ==
    /\ startup.stage = "routes"
    /\ startup' = [startup EXCEPT !.stage = "plugins", !.next = 1]
    /\ UNCHANGED <<jobs, processed, hub, channels>>
    /\ UNCHANGED <<dvars, rvars, lvars, mvars, ivars, gvars, evars>>

\* One turn of the loop of bootPlugins: a plugin whose Boot fails is skipped,
\* the Routes method of the others is called with the Router.
BootPlugin(ok) ==
    /\ startup.stage = "plugins"
    /\ startup.next <= Len(startup.plugins)
    /\ LET done == MuxCalls(startup.calls,
                            IF ok THEN PluginRoutes(startup.plugins[startup.next])
                                  ELSE <<>>)
       IN  startup' = [startup EXCEPT
                           !.calls = done.calls,
                           !.next = @ + 1,
                           !.stage = IF done.panic THEN "panic" ELSE @]
    /\ UNCHANGED <<jobs, processed, hub, channels>>
    /\ UNCHANGED <<dvars, rvars, lvars, mvars, ivars, gvars, evars>>

\* Boot after bootPlugins: the four Use calls, then the /metrics route.
BootDefaults ==
    /\ startup.stage = "plugins"
    /\ startup.next > Len(startup.plugins)
    /\ LET done == MuxCalls(startup.calls,
                            [i \in 1..4 |-> [op |-> "Use", what |-> DefaultMiddleware[i]]]
                            \o <<[op |-> "Handle", what |-> "/metrics"]>>)
       IN  startup' = [startup EXCEPT
                           !.calls = done.calls,
                           !.stage = IF done.panic THEN "panic" ELSE "booted"]
    /\ UNCHANGED <<jobs, processed, hub, channels>>
    /\ UNCHANGED <<dvars, rvars, lvars, mvars, ivars, gvars, evars>>

\* Run after Boot: the server listens.
AppListen ==
    /\ startup.stage = "booted"
    /\ startup' = [startup EXCEPT !.stage = "serving"]
    /\ UNCHANGED <<jobs, processed, hub, channels>>
    /\ UNCHANGED <<dvars, rvars, lvars, mvars, ivars, gvars, evars>>

\* The process ends (a panic of Boot ends it at once) and is started again.
AppExit ==
    /\ startup.stage \in {"panic", "serving"}
    /\ startup' = NoStartup
    /\ UNCHANGED <<jobs, processed, hub, channels>>
    /\ UNCHANGED <<dvars, rvars, lvars, mvars, ivars, gvars, evars>>

SNext ==
    \/ AppNew
    \/ \E p \in PluginKinds : AppRegister(p)
    \/ \E fn \in UserRoutes : AppRoutes(fn)
    \/ AppRun
    \/ \E ok \in BOOLEAN : BootPlugin(ok)
    \/ BootDefaults
    \/ AppListen
    \/ AppExit

\* The default middleware the Mux has accepted.
Installed ==
    {startup.calls[i].what : i \in {j \in DOMAIN startup.calls : startup.calls[j].op = "Use"}}

\* C36: in the documented start-up sequence the four default middleware are
\* installed on the Router before any route is registered on it: whenever the
\* Mux holds a route (of the application, of a plugin, or /metrics), RequestID,
\* Logger, Recovery and SecureHeaders were accepted by it before that route.
C36_DefaultsBeforeRoutes ==
    \A i \in DOMAIN startup.calls :
        startup.calls[i].op = "Handle"
        => \A k \in 1..4 :
               \E j \in 1..(i - 1) :
                   startup.calls[j] = [op |-> "Use", what |-> DefaultMiddleware[k]]

\* What does hold: a start-up that reaches the listening server registered
\* no route before the default middleware, so its only route is /metrics.
ServingOnlyMetrics ==
    startup.stage = "serving"
    => \A i \in DOMAIN startup.calls :
           startup.calls[i].op = "Handle" => startup.calls[i].what = "/metrics"

\* ------------------------------------- properties: headers of core responses

\* net/http fills in a missing Content-Type from the first bytes of the body:
\* a page that starts with <!DOCTYPE html> is sniffed as HTML, a JSON text or
\* a plain message as plain text.
Sniffed(chunk) ==
    IF chunk.kind = "html" THEN "text/html; charset=utf-8"
    ELSE "text/plain; charset=utf-8"

\* The Content-Type the client receives.
DeliveredContentType(s) ==
    IF s.sent.ContentType # "" \/ s.body = <<>> THEN s.sent.ContentType
    ELSE Sniffed(s.body[1])

\* C37: a response the dispatcher writes by itself (the typed-failure reply
\* of handleActionError, the development and the production fault page) sets
\* its headers before it commits the status line: the Content-Type it set is
\* the Content-Type of the response sent to the client.
C37_CoreHeadersSent ==
    [][(pc \in {"returned", "panicking"} /\ ~sink.committed /\ sink'.committed)
        => DeliveredContentType(sink') = sink'.header.ContentType]_vars

\* What does hold: the replies of handleActionError are sent with the headers
\* it set.
FailureHeadersSent ==
    [][(pc = "returned" /\ ~sink.committed /\ sink'.committed)
        => sink'.sent = sink'.header]_vars

\* ------------------------------------- properties: rejected requests (C38)

\* The requests of request i's client admitted before i and less than a
\* window before it.
AdmittedNear(i) ==
    {j \in Near(i) \ {i} : traffic[j].passed}

\* C38: on the in-memory limiter the requests answered 429 do not count
\* against the limit: a request arriving when fewer than limit admitted
\* requests of its client lie inside the preceding window is admitted.
C38_RejectedNotCounted ==
    ~limiter.redis
    => \A i \in DOMAIN traffic :
           Cardinality(AdmittedNear(i)) < limiter.limit => traffic[i].passed

\* What does hold: a request is admitted when fewer than limit requests of
\* its client, admitted or rejected, lie inside the preceding window.
EveryRequestCounted ==
    ~limiter.redis
    => \A i \in DOMAIN traffic :
           traffic[i].passed <=> Cardinality(Near(i) \ {i}) < limiter.limit

\* --------------------------------------- properties: CSRF with no token (C39)

\* C39: a non-JSON request with an unsafe method that submits no token at
\* all (no csrf_token form value, no X-CSRF-Token header) is answered 403 and
\* does not reach the next handler, whatever its csrf_token cookie.
C39_NoTokenRefused ==
    (mwreq.mw = "CSRF" /\ UnsafeForm(mwreq.r) /\ Submitted(mwreq.r) = "")
    => /\ mwres.nexts = 0
       /\ mwres.w.committed /\ mwres.w.status = 403

\* What does hold: without a token the request is refused unless its cookie
\* is present with the empty value.
NoTokenRefusedUnlessEmptyCookie ==
    (/\ mwreq.mw = "CSRF" /\ UnsafeForm(mwreq.r) /\ Submitted(mwreq.r) = ""
     /\ ~(mwreq.r.cookie.present /\ mwreq.r.cookie.Value = ""))
    => /\ mwres.nexts = 0
       /\ mwres.w.committed /\ mwres.w.status = 403

\* ----------------------------------------------------------- specifications

\* One request through ActionHandler, in a process of any configuration; no
\* routes, no limiter.
Init ==
    /\ cfg \in Configs
    /\ pc = "idle"
    /\ req = Request("GET", "")
    /\ ctx = NewContext
    /\ sink = NewSink
    /\ lastErr = Nil
    /\ bound = NoBind
    /\ ret = Nil
    /\ hcalls = <<>>
    /\ controllers = ExampleControllers
    /\ muxes = <<{}>>
    /\ stack = <<NewRouter>>
    /\ phase = "idle"
    /\ calls = <<>>
    /\ resp = NoResponse
    /\ limiter = NoLimiter
    /\ clock = 0
    /\ counts = NoCounts
    /\ zsets = NoKeys
    /\ traffic = <<>>
    /\ solo = NoSolo
    /\ mwreq = NoRequest
    /\ mwres = NoOutcome
    /\ currentLocale = defaultLocale
    /\ localized = <<>>
    /\ noun = NoNoun
    /\ seeds = {}
    /\ onces = <<>>
    /\ heap = <<>>
    /\ inflight = <<>>
    /\ modes = NoFault
    /\ chain = NoChain
    /\ jobs = <<>>
    /\ processed = <<>>
    /\ hub = NewHub
    /\ channels = <<>>
    /\ startup = NoStartup

Spec == Init /\ [][Next]_vars

\* New(): an empty Router, and App.Routes is about to run the callback of an
\* application with the example's controllers.
RouterInit ==
    /\ cfg = Config(FALSE, "", FALSE, FALSE)
    /\ pc = "idle"
    /\ req = Request("GET", "")
    /\ ctx = NewContext
    /\ sink = NewSink
    /\ lastErr = Nil
    /\ bound = NoBind
    /\ ret = Nil
    /\ hcalls = <<>>
    /\ controllers = ExampleControllers
    /\ muxes = <<{}>>
    /\ stack = <<NewRouter>>
    /\ phase = "boot"
    /\ calls = <<>>
    /\ resp = NoResponse
    /\ limiter = NoLimiter
    /\ clock = 0
    /\ counts = NoCounts
    /\ zsets = NoKeys
    /\ traffic = <<>>
    /\ solo = NoSolo
    /\ mwreq = NoRequest
    /\ mwres = NoOutcome
    /\ currentLocale = defaultLocale
    /\ localized = <<>>
    /\ noun = NoNoun
    /\ seeds = {}
    /\ onces = <<>>
    /\ heap = <<>>
    /\ inflight = <<>>
    /\ modes = NoFault
    /\ chain = NoChain
    /\ jobs = <<>>
    /\ processed = <<>>
    /\ hub = NewHub
    /\ channels = <<>>
    /\ startup = NoStartup

RouterSpec == RouterInit /\ [][RNext]_vars

\* An empty Router and one controller implementing any subset of the actions.
CapsInit ==
    /\ cfg = Config(FALSE, "", FALSE, FALSE)
    /\ pc = "idle"
    /\ req = Request("GET", "")
    /\ ctx = NewContext
    /\ sink = NewSink
    /\ lastErr = Nil
    /\ bound = NoBind
    /\ ret = Nil
    /\ hcalls = <<>>
    /\ controllers \in [{"WidgetsController"} -> SUBSET Capabilities]
    /\ muxes = <<{}>>
    /\ stack = <<NewRouter>>
    /\ phase = "boot"
    /\ calls = <<>>
    /\ resp = NoResponse
    /\ limiter = NoLimiter
    /\ clock = 0
    /\ counts = NoCounts
    /\ zsets = NoKeys
    /\ traffic = <<>>
    /\ solo = NoSolo
    /\ mwreq = NoRequest
    /\ mwres = NoOutcome
    /\ currentLocale = defaultLocale
    /\ localized = <<>>
    /\ noun = NoNoun
    /\ seeds = {}
    /\ onces = <<>>
    /\ heap = <<>>
    /\ inflight = <<>>
    /\ modes = NoFault
    /\ chain = NoChain
    /\ jobs = <<>>
    /\ processed = <<>>
    /\ hub = NewHub
    /\ channels = <<>>
    /\ startup = NoStartup

CapsSpec == CapsInit /\ [][CNext]_vars

\* RateLimit(limit, window) was built; cache.Redis is set or nil.
RateLimitInit ==
    /\ cfg = Config(FALSE, "", FALSE, FALSE)
    /\ pc = "idle"
    /\ req = Request("GET", "")
    /\ ctx = NewContext
    /\ sink = NewSink
    /\ lastErr = Nil
    /\ bound = NoBind
    /\ ret = Nil
    /\ hcalls = <<>>
    /\ controllers = ExampleControllers
    /\ muxes = <<{}>>
    /\ stack = <<NewRouter>>
    /\ phase = "idle"
    /\ calls = <<>>
    /\ resp = NoResponse
    /\ limiter \in [limit : 1..MaxLimit, window : {Window}, redis : BOOLEAN]
    /\ clock = 0
    /\ counts = NoCounts
    /\ zsets = NoKeys
    /\ traffic = <<>>
    /\ solo = NoSolo
    /\ mwreq = NoRequest
    /\ mwres = NoOutcome
    /\ currentLocale = defaultLocale
    /\ localized = <<>>
    /\ noun = NoNoun
    /\ seeds = {}
    /\ onces = <<>>
    /\ heap = <<>>
    /\ inflight = <<>>
    /\ modes = NoFault
    /\ chain = NoChain
    /\ jobs = <<>>
    /\ processed = <<>>
    /\ hub = NewHub
    /\ channels = <<>>
    /\ startup = NoStartup

RateLimitSpec == RateLimitInit /\ [][LNext]_vars

\* One request through the CSRF or the CORS middleware, or one call of an
\* action wrapped by auth.Required or auth.RequireRole.
MiddlewareInit ==
    /\ cfg = Config(FALSE, "", FALSE, FALSE)
    /\ pc = "idle"
    /\ req = Request("GET", "")
    /\ ctx = NewContext
    /\ sink = NewSink
    /\ lastErr = Nil
    /\ bound = NoBind
    /\ ret = Nil
    /\ hcalls = <<>>
    /\ controllers = ExampleControllers
    /\ muxes = <<{}>>
    /\ stack = <<NewRouter>>
    /\ phase = "idle"
    /\ calls = <<>>
    /\ resp = NoResponse
    /\ limiter = NoLimiter
    /\ clock = 0
    /\ counts = NoCounts
    /\ zsets = NoKeys
    /\ traffic = <<>>
    /\ solo = NoSolo
    /\ mwreq = NoRequest
    /\ mwres = NoOutcome
    /\ currentLocale = defaultLocale
    /\ localized = <<>>
    /\ noun = NoNoun
    /\ seeds = {}
    /\ onces = <<>>
    /\ heap = <<>>
    /\ inflight = <<>>
    /\ modes = NoFault
    /\ chain = NoChain
    /\ jobs = <<>>
    /\ processed = <<>>
    /\ hub = NewHub
    /\ channels = <<>>
    /\ startup = NoStartup

MiddlewareSpec == MiddlewareInit /\ [][MNext]_vars

\* A word pluralized, then the plural singularized.
InflectInit ==
    /\ cfg = Config(FALSE, "", FALSE, FALSE)
    /\ pc = "idle"
    /\ req = Request("GET", "")
    /\ ctx = NewContext
    /\ sink = NewSink
    /\ lastErr = Nil
    /\ bound = NoBind
    /\ ret = Nil
    /\ hcalls = <<>>
    /\ controllers = ExampleControllers
    /\ muxes = <<{}>>
    /\ stack = <<NewRouter>>
    /\ phase = "idle"
    /\ calls = <<>>
    /\ resp = NoResponse
    /\ limiter = NoLimiter
    /\ clock = 0
    /\ counts = NoCounts
    /\ zsets = NoKeys
    /\ traffic = <<>>
    /\ solo = NoSolo
    /\ mwreq = NoRequest
    /\ mwres = NoOutcome
    /\ currentLocale = defaultLocale
    /\ localized = <<>>
    /\ noun = NoNoun
    /\ seeds = {}
    /\ onces = <<>>
    /\ heap = <<>>
    /\ inflight = <<>>
    /\ modes = NoFault
    /\ chain = NoChain
    /\ jobs = <<>>
    /\ processed = <<>>
    /\ hub = NewHub
    /\ channels = <<>>
    /\ startup = NoStartup

InflectSpec == InflectInit /\ [][GNext]_vars

\* Concurrent requests through the Locale middleware of one process.
LocaleInit ==
    /\ cfg = Config(FALSE, "", FALSE, FALSE)
    /\ pc = "idle"
    /\ req = Request("GET", "")
    /\ ctx = NewContext
    /\ sink = NewSink
    /\ lastErr = Nil
    /\ bound = NoBind
    /\ ret = Nil
    /\ hcalls = <<>>
    /\ controllers = ExampleControllers
    /\ muxes = <<{}>>
    /\ stack = <<NewRouter>>
    /\ phase = "idle"
    /\ calls = <<>>
    /\ resp = NoResponse
    /\ limiter = NoLimiter
    /\ clock = 0
    /\ counts = NoCounts
    /\ zsets = NoKeys
    /\ traffic = <<>>
    /\ solo = NoSolo
    /\ mwreq = NoRequest
    /\ mwres = NoOutcome
    /\ currentLocale = defaultLocale
    /\ localized = <<>>
    /\ noun = NoNoun
    /\ seeds = {}
    /\ onces = <<>>
    /\ heap = <<>>
    /\ inflight = <<>>
    /\ modes = NoFault
    /\ chain = NoChain
    /\ jobs = <<>>
    /\ processed = <<>>
    /\ hub = NewHub
    /\ channels = <<>>
    /\ startup = NoStartup

LocaleSpec == LocaleInit /\ [][INext]_vars

\* App.Routes: registration calls on App.Router, on the Routers handed to
\* callbacks, and from a callback on the Router outside it.
TableInit ==
    /\ cfg = Config(FALSE, "", FALSE, FALSE)
    /\ pc = "idle"
    /\ req = Request("GET", "")
    /\ ctx = NewContext
    /\ sink = NewSink
    /\ lastErr = Nil
    /\ bound = NoBind
    /\ ret = Nil
    /\ hcalls = <<>>
    /\ controllers = ExampleControllers
    /\ muxes = <<{}>>
    /\ stack = <<NewRouter>>
    /\ phase = "boot"
    /\ calls = <<>>
    /\ resp = NoResponse
    /\ limiter = NoLimiter
    /\ clock = 0
    /\ counts = NoCounts
    /\ zsets = NoKeys
    /\ traffic = <<>>
    /\ solo = NoSolo
    /\ mwreq = NoRequest
    /\ mwres = NoOutcome
    /\ currentLocale = defaultLocale
    /\ localized = <<>>
    /\ noun = NoNoun
    /\ seeds = {}
    /\ onces = <<>>
    /\ heap = <<>>
    /\ inflight = <<>>
    /\ modes = NoFault
    /\ chain = NoChain
    /\ jobs = <<>>
    /\ processed = <<>>
    /\ hub = NewHub
    /\ channels = <<>>
    /\ startup = NoStartup

TableSpec == TableInit /\ [][TNext]_vars

\* Calls of db.Once, from one process or several, on one database.
SeedInit ==
    /\ cfg = Config(FALSE, "", FALSE, FALSE)
    /\ pc = "idle"
    /\ req = Request("GET", "")
    /\ ctx = NewContext
    /\ sink = NewSink
    /\ lastErr = Nil
    /\ bound = NoBind
    /\ ret = Nil
    /\ hcalls = <<>>
    /\ controllers = ExampleControllers
    /\ muxes = <<{}>>
    /\ stack = <<NewRouter>>
    /\ phase = "idle"
    /\ calls = <<>>
    /\ resp = NoResponse
    /\ limiter = NoLimiter
    /\ clock = 0
    /\ counts = NoCounts
    /\ zsets = NoKeys
    /\ traffic = <<>>
    /\ solo = NoSolo
    /\ mwreq = NoRequest
    /\ mwres = NoOutcome
    /\ currentLocale = defaultLocale
    /\ localized = <<>>
    /\ noun = NoNoun
    /\ seeds = {}
    /\ onces = <<>>
    /\ heap = <<>>
    /\ inflight = <<>>
    /\ modes = NoFault
    /\ chain = NoChain
    /\ jobs = <<>>
    /\ processed = <<>>
    /\ hub = NewHub
    /\ channels = <<>>
    /\ startup = NoStartup

SeedSpec == SeedInit /\ [][ONext]_vars

\* One process: its environment, the App, an adapted action and a fault.
EnvInit ==
    /\ cfg = Config(FALSE, "", FALSE, FALSE)
    /\ pc = "idle"
    /\ req = Request("GET", "")
    /\ ctx = NewContext
    /\ sink = NewSink
    /\ lastErr = Nil
    /\ bound = NoBind
    /\ ret = Nil
    /\ hcalls = <<>>
    /\ controllers = ExampleControllers
    /\ muxes = <<{}>>
    /\ stack = <<NewRouter>>
    /\ phase = "idle"
    /\ calls = <<>>
    /\ resp = NoResponse
    /\ limiter = NoLimiter
    /\ clock = 0
    /\ counts = NoCounts
    /\ zsets = NoKeys
    /\ traffic = <<>>
    /\ solo = NoSolo
    /\ mwreq = NoRequest
    /\ mwres = NoOutcome
    /\ currentLocale = defaultLocale
    /\ localized = <<>>
    /\ noun = NoNoun
    /\ seeds = {}
    /\ onces = <<>>
    /\ heap = <<>>
    /\ inflight = <<>>
    /\ modes = NoFault
    /\ chain = NoChain
    /\ jobs = <<>>
    /\ processed = <<>>
    /\ hub = NewHub
    /\ channels = <<>>
    /\ startup = NoStartup

EnvSpec == EnvInit /\ [][ENext]_vars

\* Concurrent requests through the in-memory RateLimit, the locked section
\* taken one statement at a time.
LockInit ==
    /\ cfg = Config(FALSE, "", FALSE, FALSE)
    /\ pc = "idle"
    /\ req = Request("GET", "")
    /\ ctx = NewContext
    /\ sink = NewSink
    /\ lastErr = Nil
    /\ bound = NoBind
    /\ ret = Nil
    /\ hcalls = <<>>
    /\ controllers = ExampleControllers
    /\ muxes = <<{}>>
    /\ stack = <<NewRouter>>
    /\ phase = "idle"
    /\ calls = <<>>
    /\ resp = NoResponse
    /\ limiter \in [limit : 1..MaxLimit, window : {Window}, redis : {FALSE}]
    /\ clock = 0
    /\ counts = NoCounts
    /\ zsets = NoKeys
    /\ traffic = <<>>
    /\ solo = NoSolo
    /\ mwreq = NoRequest
    /\ mwres = NoOutcome
    /\ currentLocale = defaultLocale
    /\ localized = <<>>
    /\ noun = NoNoun
    /\ seeds = {}
    /\ onces = <<>>
    /\ heap = <<>>
    /\ inflight = <<>>
    /\ modes = NoFault
    /\ chain = NoChain
    /\ jobs = <<>>
    /\ processed = <<>>
    /\ hub = NewHub
    /\ channels = <<>>
    /\ startup = NoStartup

LockSpec == LockInit /\ [][KNext]_vars

\* Concurrent requests, each dispatched with its Context.
HeapInit ==
    /\ cfg = Config(FALSE, "", FALSE, FALSE)
    /\ pc = "idle"
    /\ req = Request("GET", "")
    /\ ctx = NewContext
    /\ sink = NewSink
    /\ lastErr = Nil
    /\ bound = NoBind
    /\ ret = Nil
    /\ hcalls = <<>>
    /\ controllers = ExampleControllers
    /\ muxes = <<{}>>
    /\ stack = <<NewRouter>>
    /\ phase = "idle"
    /\ calls = <<>>
    /\ resp = NoResponse
    /\ limiter = NoLimiter
    /\ clock = 0
    /\ counts = NoCounts
    /\ zsets = NoKeys
    /\ traffic = <<>>
    /\ solo = NoSolo
    /\ mwreq = NoRequest
    /\ mwres = NoOutcome
    /\ currentLocale = defaultLocale
    /\ localized = <<>>
    /\ noun = NoNoun
    /\ seeds = {}
    /\ onces = <<>>
    /\ heap = <<>>
    /\ inflight = <<>>
    /\ modes = NoFault
    /\ chain = NoChain
    /\ jobs = <<>>
    /\ processed = <<>>
    /\ hub = NewHub
    /\ channels = <<>>
    /\ startup = NoStartup

HeapSpec == HeapInit /\ [][HNext]_vars

\* One request through the default chain of a booted process.
ChainInit ==
    /\ cfg \in Booted
    /\ pc = "chain"
    /\ req = Request("GET", "")
    /\ ctx = NewContext
    /\ sink = NewSink
    /\ lastErr = Nil
    /\ bound = NoBind
    /\ ret = Nil
    /\ hcalls = <<>>
    /\ controllers = ExampleControllers
    /\ muxes = <<{}>>
    /\ stack = <<NewRouter>>
    /\ phase = "idle"
    /\ calls = <<>>
    /\ resp = NoResponse
    /\ limiter = NoLimiter
    /\ clock = 0
    /\ counts = NoCounts
    /\ zsets = NoKeys
    /\ traffic = <<>>
    /\ solo = NoSolo
    /\ mwreq = NoRequest
    /\ mwres = NoOutcome
    /\ currentLocale = defaultLocale
    /\ localized = <<>>
    /\ noun = NoNoun
    /\ seeds = {}
    /\ onces = <<>>
    /\ heap = <<>>
    /\ inflight = <<>>
    /\ modes = NoFault
    /\ chain = NoChain
    /\ jobs = <<>>
    /\ processed = <<>>
    /\ hub = NewHub
    /\ channels = <<>>
    /\ startup = NoStartup

ChainSpec == ChainInit /\ [][BNext]_vars

\* Words named by the generator and by the Router.
NamingInit ==
    /\ cfg = Config(FALSE, "", FALSE, FALSE)
    /\ pc = "idle"
    /\ req = Request("GET", "")
    /\ ctx = NewContext
    /\ sink = NewSink
    /\ lastErr = Nil
    /\ bound = NoBind
    /\ ret = Nil
    /\ hcalls = <<>>
    /\ controllers = ExampleControllers
    /\ muxes = <<{}>>
    /\ stack = <<NewRouter>>
    /\ phase = "idle"
    /\ calls = <<>>
    /\ resp = NoResponse
    /\ limiter = NoLimiter
    /\ clock = 0
    /\ counts = NoCounts
    /\ zsets = NoKeys
    /\ traffic = <<>>
    /\ solo = NoSolo
    /\ mwreq = NoRequest
    /\ mwres = NoOutcome
    /\ currentLocale = defaultLocale
    /\ localized = <<>>
    /\ noun = NoNoun
    /\ seeds = {}
    /\ onces = <<>>
    /\ heap = <<>>
    /\ inflight = <<>>
    /\ modes = NoFault
    /\ chain = NoChain
    /\ jobs = <<>>
    /\ processed = <<>>
    /\ hub = NewHub
    /\ channels = <<>>
    /\ startup = NoStartup

NamingSpec == NamingInit /\ [][ANext]_vars

\* Tasks processed by the queue worker.
WorkerInit ==
    /\ cfg = Config(FALSE, "", FALSE, FALSE)
    /\ pc = "idle"
    /\ req = Request("GET", "")
    /\ ctx = NewContext
    /\ sink = NewSink
    /\ lastErr = Nil
    /\ bound = NoBind
    /\ ret = Nil
    /\ hcalls = <<>>
    /\ controllers = ExampleControllers
    /\ muxes = <<{}>>
    /\ stack = <<NewRouter>>
    /\ phase = "idle"
    /\ calls = <<>>
    /\ resp = NoResponse
    /\ limiter = NoLimiter
    /\ clock = 0
    /\ counts = NoCounts
    /\ zsets = NoKeys
    /\ traffic = <<>>
    /\ solo = NoSolo
    /\ mwreq = NoRequest
    /\ mwres = NoOutcome
    /\ currentLocale = defaultLocale
    /\ localized = <<>>
    /\ noun = NoNoun
    /\ seeds = {}
    /\ onces = <<>>
    /\ heap = <<>>
    /\ inflight = <<>>
    /\ modes = NoFault
    /\ chain = NoChain
    /\ jobs = <<>>
    /\ processed = <<>>
    /\ hub = NewHub
    /\ channels = <<>>
    /\ startup = NoStartup

WorkerSpec == WorkerInit /\ [][WNext]_vars

\* Connections served by Hub.HandleChannel, with broadcasts from other goroutines.
HubInit ==
    /\ cfg = Config(FALSE, "", FALSE, FALSE)
    /\ pc = "idle"
    /\ req = Request("GET", "")
    /\ ctx = NewContext
    /\ sink = NewSink
    /\ lastErr = Nil
    /\ bound = NoBind
    /\ ret = Nil
    /\ hcalls = <<>>
    /\ controllers = ExampleControllers
    /\ muxes = <<{}>>
    /\ stack = <<NewRouter>>
    /\ phase = "idle"
    /\ calls = <<>>
    /\ resp = NoResponse
    /\ limiter = NoLimiter
    /\ clock = 0
    /\ counts = NoCounts
    /\ zsets = NoKeys
    /\ traffic = <<>>
    /\ solo = NoSolo
    /\ mwreq = NoRequest
    /\ mwres = NoOutcome
    /\ currentLocale = defaultLocale
    /\ localized = <<>>
    /\ noun = NoNoun
    /\ seeds = {}
    /\ onces = <<>>
    /\ heap = <<>>
    /\ inflight = <<>>
    /\ modes = NoFault
    /\ chain = NoChain
    /\ jobs = <<>>
    /\ processed = <<>>
    /\ hub = NewHub
    /\ channels = <<>>
    /\ startup = NoStartup

HubSpec == HubInit /\ [][UNext]_vars

\* The start-up of the application: New, Register, Routes, Run.
StartupInit ==
    /\ cfg = Config(FALSE, "", FALSE, FALSE)
    /\ pc = "idle"
    /\ req = Request("GET", "")
    /\ ctx = NewContext
    /\ sink = NewSink
    /\ lastErr = Nil
    /\ bound = NoBind
    /\ ret = Nil
    /\ hcalls = <<>>
    /\ controllers = ExampleControllers
    /\ muxes = <<{}>>
    /\ stack = <<NewRouter>>
    /\ phase = "idle"
    /\ calls = <<>>
    /\ resp = NoResponse
    /\ limiter = NoLimiter
    /\ clock = 0
    /\ counts = NoCounts
    /\ zsets = NoKeys
    /\ traffic = <<>>
    /\ solo = NoSolo
    /\ mwreq = NoRequest
    /\ mwres = NoOutcome
    /\ currentLocale = defaultLocale
    /\ localized = <<>>
    /\ noun = NoNoun
    /\ seeds = {}
    /\ onces = <<>>
    /\ heap = <<>>
    /\ inflight = <<>>
    /\ modes = NoFault
    /\ chain = NoChain
    /\ jobs = <<>>
    /\ processed = <<>>
    /\ hub = NewHub
    /\ channels = <<>>
    /\ startup = NoStartup

StartupSpec == StartupInit /\ [][SNext]_vars

====
